---- MODULE Spec2Model ----
(***************************************************************************)
(* HiBuddy: the schedule / time-slot engine.                               *)
(*                                                                         *)
(*   utils/runtime.py      parse_hhmm_to_time, find_active_item,           *)
(*                         annotate_schedule_with_status                   *)
(*   pages/2_...py         the follow-along page: _load_schedule,          *)
(*                         _auto_tts_logic (narration state machine)       *)
(*   pages/1_...py         the coordinator page: _apply_type_guardrails,   *)
(*                         _auto_attach_cooking_candidates                 *)
(*                                                                         *)
(* Strings are sequences of tokens.  A time or date string is a sequence   *)
(* of its characters; a task is a sequence of its (romanised) Hangul       *)
(* syllables and ASCII characters; a type is a sequence of words and       *)
(* blanks.  Python's None is the value None.                               *)
(***************************************************************************)
EXTENDS Integers, Sequences, FiniteSets, TLC

VARIABLES
    \* ---- utils/runtime.py called as pure functions (SpecRuntime)
    rt_schedule,      \* the list handed to the functions
    rt_now,           \* the `now` handed to them, seconds since midnight
    rt_called,        \* which of the two functions have returned
    rt_found,         \* what find_active_item returned
    rt_annotated,     \* what annotate_schedule_with_status returned
    \* ---- the follow-along page, pages/2 (SpecUser)
    file,             \* data/schedule_today.json
    clock,            \* the wall clock (Asia/Seoul): day of the month, second of the day
    ss,               \* st.session_state of the follow-along session, key -> value
    tick,             \* what the last run of user_page did
    hist,             \* history of the session's narrations
    \* ---- the coordinator page's normalisation passes, pages/1 (SpecNorm)
    nz_schedule,      \* st.session_state["schedule"] of the coordinator session
    nz_trace,         \* the last two passes: which one, and the list it was given
    \* ---- the coordinator page's session, pages/1 (SpecCoord)
    co_schedule,      \* st.session_state[SCHEDULE_STATE_KEY]
    co_uuid,          \* how many ids uuid.uuid4() has handed out
    co_last,          \* the last operation: which one, how it ended, the list before it
    \* ---- parse_hhmm_to_time called as a pure function (SpecParse)
    pt_input,         \* the value handed to the function
    pt_result,        \* whether it was called, and what it returned
    \* ---- the schedule file between a save and a load (SpecFile)
    fs_disk,          \* the bytes of data/schedule_today.json, or that it is absent
    fs_writer,        \* the save in progress: what it has still to write
    fs_saved,         \* the payload of the last completed save
    fs_loaded         \* what the last _load_schedule read

rtVars == <<rt_schedule, rt_now, rt_called, rt_found, rt_annotated>>

upVars == <<file, clock, ss, tick, hist>>

nzVars == <<nz_schedule, nz_trace>>

coVars == <<co_schedule, co_uuid, co_last>>

ptVars == <<pt_input, pt_result>>

fsVars == <<fs_disk, fs_writer, fs_saved, fs_loaded>>

vars == <<rt_schedule, rt_now, rt_called, rt_found, rt_annotated,
          file, clock, ss, tick, hist,
          nz_schedule, nz_trace,
          co_schedule, co_uuid, co_last,
          pt_input, pt_result,
          fs_disk, fs_writer, fs_saved, fs_loaded>>

(***************************************************************************)
(* Bounds of the model.                                                    *)
(***************************************************************************)
MaxSlots == 3          \* length of the lists handed to utils/runtime.py
MaxDocSlots == 2       \* slots of a schedule document read by the follow-along page
RunCap == 3            \* consecutive quiet ticks counted by the history
MaxUuid == 3           \* ids handed out in a coordinator session
MaxRuns == 3           \* runs of the coordinator page in a session
MaxNormSlots == 2      \* length of the lists handed to the normalisation passes

(***************************************************************************)
(* Python values and string helpers.                                       *)
(***************************************************************************)
None == <<"<None>">>

isinstance_str(v) == v # None

Digits == <<"0", "1", "2", "3", "4", "5", "6", "7", "8", "9">>

DigitTable == [c \in {Digits[i] : i \in 1..10} |-> (CHOOSE i \in 1..10 : Digits[i] = c) - 1]

IsDigit(c) == c \in DOMAIN DigitTable

DigitVal(c) == DigitTable[c]

IsSpace(c) == c = " "

RECURSIVE lstrip(_)
lstrip(s) == IF s # <<>> /\ IsSpace(Head(s)) THEN lstrip(Tail(s)) ELSE s

RECURSIVE rstrip(_)
rstrip(s) ==
    IF s # <<>> /\ IsSpace(s[Len(s)]) THEN rstrip(SubSeq(s, 1, Len(s) - 1)) ELSE s

\* str.strip()
strip(s) == rstrip(lstrip(s))

\* str.split(sep) for a one-character separator: always at least one field
RECURSIVE split(_, _)
split(s, sep) ==
    IF \A i \in 1..Len(s) : s[i] # sep
    THEN <<s>>
    ELSE LET k == CHOOSE i \in 1..Len(s) :
                      s[i] = sep /\ \A j \in 1..(i - 1) : s[j] # sep
         IN  <<SubSeq(s, 1, k - 1)>> \o split(SubSeq(s, k + 1, Len(s)), sep)

RECURSIVE DecVal(_)
DecVal(s) == IF s = <<>> THEN 0 ELSE 10 * DecVal(SubSeq(s, 1, Len(s) - 1)) + DigitVal(s[Len(s)])

\* int(str): blanks around, an optional sign, then one or more digits.
\* ok = FALSE stands for ValueError.
int(s) ==
    LET t    == strip(s)
        neg  == t # <<>> /\ Head(t) = "-"
        body == IF t # <<>> /\ Head(t) \in {"+", "-"} THEN Tail(t) ELSE t
    IN  IF body = <<>> \/ \E i \in 1..Len(body) : ~IsDigit(body[i])
        THEN [ok |-> FALSE, val |-> 0]
        ELSE [ok |-> TRUE, val |-> IF neg THEN 0 - DecVal(body) ELSE DecVal(body)]

(***************************************************************************)
(* utils/runtime.py                                                        *)
(***************************************************************************)
\* A datetime.time without seconds is its minute of the day; time(h, m)
\* raises ValueError outside 0..23 / 0..59, and every exception gives 00:00.
\* the body of the try (lines 10-11): the unpacking of split(":"), int()
\* and time() each raise ValueError
parse_try(hhmm) ==
    LET parts == split(hhmm, ":")
    IN  IF Len(parts) # 2
        THEN [raised |-> TRUE, val |-> 0]
        ELSE LET hh == int(parts[1])
                 mm == int(parts[2])
             IN  IF hh.ok /\ mm.ok /\ hh.val \in 0..23 /\ mm.val \in 0..59
                 THEN [raised |-> FALSE, val |-> hh.val * 60 + mm.val]
                 ELSE [raised |-> TRUE, val |-> 0]

\* a handler that lets the exception through
mutant_except_exception(r) == r

\* except Exception: return time(0, 0) (lines 12-13)
except_exception(r) == IF r.raised THEN [raised |-> FALSE, val |-> 0] ELSE r

\* one call: how it ends and what it returns
parse_call(hhmm) ==
    IF ~isinstance_str(hhmm)
    THEN [raised |-> FALSE, val |-> 0]
    ELSE except_exception(parse_try(hhmm))

parse_hhmm_to_time(hhmm) == parse_call(hhmm).val

\* item.get("time", "00:00"): the slots of the model always carry the key
SlotTime(item) == parse_hhmm_to_time(item.time)

\* `t <= now` and `t < now` of datetime.time values: t has no seconds,
\* now is counted in seconds
TimeLe(t, now) == t * 60 <= now
TimeLt(t, now) == t * 60 < now

\* sorted(schedule, key=...) is stable: the positions of `schedule`, by key,
\* ties in their original order
RECURSIVE insert_stable(_, _, _)
insert_stable(sorted, schedule, i) ==
    IF sorted = <<>>
    THEN <<i>>
    ELSE IF SlotTime(schedule[sorted[Len(sorted)]]) <= SlotTime(schedule[i])
         THEN Append(sorted, i)
         ELSE Append(insert_stable(SubSeq(sorted, 1, Len(sorted) - 1), schedule, i),
                     sorted[Len(sorted)])

RECURSIVE sorted_items_upto(_, _)
sorted_items_upto(schedule, n) ==
    IF n = 0 THEN <<>>
    ELSE insert_stable(sorted_items_upto(schedule, n - 1), schedule, n)

\* mutant: the list is scanned in its given order, not sorted
sorted_items_unsorted(schedule) == [i \in 1..Len(schedule) |-> i]

sorted_items(schedule) == sorted_items_upto(schedule, Len(schedule))

\* the loop of find_active_item over sorted_items[k..]; 0 stands for None,
\* an item is named by its position in `schedule` (its object identity)
RECURSIVE find_loop(_, _, _, _, _, _)
find_loop(schedule, now, sorted, k, active, next_item) ==
    IF k > Len(sorted)
    THEN [active |-> active, next_item |-> next_item]
    ELSE LET item == sorted[k]
             t    == SlotTime(schedule[item])
         IN  IF TimeLe(t, now)
             THEN find_loop(schedule, now, sorted, k + 1, item, next_item)
             ELSE IF ~TimeLe(t, now) /\ next_item = 0
                  THEN find_loop(schedule, now, sorted, k + 1, active, item)
                  ELSE find_loop(schedule, now, sorted, k + 1, active, next_item)

find_active_item(schedule, now) ==
    IF schedule = <<>>
    THEN [active |-> 0, next_item |-> 0]
    ELSE LET sorted == sorted_items(schedule)
             r      == find_loop(schedule, now, sorted, 1, 0, 0)
         IN  IF r.active = 0
             THEN [active |-> 0, next_item |-> sorted[1]]
             ELSE r

\* mutant: the active slot is recognised by its start time, not its identity
status_of_by_time(schedule, now, active, i) ==
    IF active # 0 /\ SlotTime(schedule[i]) = SlotTime(schedule[active])
    THEN "active"
    ELSE IF TimeLt(SlotTime(schedule[i]), now)
         THEN "past"
         ELSE "upcoming"

\* a slot that starts exactly now counts as past
status_of_past_at_now(schedule, now, active, i) ==
    IF active # 0 /\ i = active
    THEN "active"
    ELSE IF TimeLe(SlotTime(schedule[i]), now)
         THEN "past"
         ELSE "upcoming"

\* the status given to the item at position i
status_of(schedule, now, active, i) ==
    IF active # 0 /\ i = active
    THEN "active"
    ELSE IF TimeLt(SlotTime(schedule[i]), now)
         THEN "past"
         ELSE "upcoming"

annotate_schedule_with_status(schedule, now) ==
    LET active == find_active_item(schedule, now).active
    IN  [i \in 1..Len(schedule) |->
            [item |-> schedule[i], status |-> status_of(schedule, now, active, i)]]

\* the caller's list after find_active_item: sorted() builds a new list
\* (line 26) and the loop only reads the items
find_input_after(schedule, now) == schedule

\* a loop that writes the status into the item itself (new_item = item)
mutant_annotate_in_place(schedule, now) ==
    [i \in 1..Len(schedule) |->
        [time |-> schedule[i].time,
         status |-> status_of(schedule, now, find_active_item(schedule, now).active, i)]]

\* the caller's list after annotate_schedule_with_status: new_item is a
\* copy, dict(item), and "status" is written into the copy (lines 65-66)
annotate_input_after(schedule, now) == schedule

RtIdle ==
    /\ rt_schedule = <<>>
    /\ rt_now = 0
    /\ rt_called = {}
    /\ rt_found = [active |-> 0, next_item |-> 0]
    /\ rt_annotated = <<>>

(***************************************************************************)
(* pages/1: the coordinator page's normalisation passes.                   *)
(*                                                                         *)
(* Hangul is written one token per syllable, romanised: "샤워하기" is       *)
(* <<"sya", "wo", "ha", "gi">>.                                            *)
(***************************************************************************)
IsPrefixAt(s, k, i) ==
    /\ i + Len(k) - 1 <= Len(s)
    /\ \A j \in 1..Len(k) : s[i + j - 1] = k[j]

\* Python's `k in task` for strings
Contains(s, k) == \E i \in 1..(Len(s) + 1) : IsPrefixAt(s, k, i)

\* any(k in task for k in kws)
AnyIn(kws, task) == \E k \in kws : Contains(task, k)

\* 샤워, 세수, 양치, 씻기, 머리감기, 위생
routine_kw ==
    { <<"sya", "wo">>, <<"se", "su">>, <<"yang", "chi">>, <<"ssit", "gi">>,
      <<"meo", "ri", "gam", "gi">>, <<"wi", "saeng">> }

\* 식사, 밥, 아침, 점심, 저녁, 간식, 먹기, 먹어요, 먹자
meal_kw ==
    { <<"sik", "sa">>, <<"bap">>, <<"a", "chim">>, <<"jeom", "sim">>,
      <<"jeo", "nyeok">>, <<"gan", "sik">>, <<"meok", "gi">>,
      <<"meok", "eo", "yo">>, <<"meok", "ja">> }

\* 요리, 만들, 끓이, 레시피, 조리, 준비해, 해먹
cooking_intent_kw ==
    { <<"yo", "ri">>, <<"man", "deul">>, <<"kkeulh", "i">>, <<"re", "si", "pi">>,
      <<"jo", "ri">>, <<"jun", "bi", "hae">>, <<"hae", "meok">> }

\* 여가, 휴식, 드라마, 드론, 스포츠, 유튜브, 영상, 보기, 시청
hobby_kw ==
    { <<"yeo", "ga">>, <<"hyu", "sik">>, <<"deu", "ra", "ma">>, <<"deu", "ron">>,
      <<"seu", "po", "cheu">>, <<"yu", "tyu", "beu">>, <<"yeong", "sang">>,
      <<"bo", "gi">>, <<"si", "cheong">> }

\* 운동, 스트레칭, 재활: the exceptions of the HOBBY rule (line 106)
hobby_except_kw ==
    { <<"un", "dong">>, <<"seu", "teu", "re", "ching">>, <<"jae", "hwal">> }

\* `x or ""`
or_empty(v) == IF v = None THEN <<>> ELSE v

\* mutant: a slot already tagged HOBBY is not looked at by the HOBBY rule
mutant_guardrail_item(it) ==
    LET task == strip(or_empty(it.task))
        t    == strip(or_empty(it.type))
    IN  IF AnyIn(routine_kw, task)
        THEN [it EXCEPT !.type = <<"ROUTINE">>]
        ELSE IF AnyIn(hobby_kw, task) /\ ~AnyIn(hobby_except_kw, task) /\ t # <<"HOBBY">>
        THEN [it EXCEPT !.type = <<"HOBBY">>]
        ELSE IF AnyIn(meal_kw, task)
        THEN [it EXCEPT !.type = IF AnyIn(cooking_intent_kw, task)
                                 THEN <<"COOKING">> ELSE <<"MEAL">>]
        ELSE IF t = <<"COOKING">> /\ ~AnyIn(cooking_intent_kw, task)
        THEN [it EXCEPT !.type = <<"MEAL">>]
        ELSE it

\* mutant: the meal rule leaves a slot already tagged COOKING as it is, and
\* there is no demotion
mutant_guardrail_trust_cooking(it) ==
    LET task == strip(or_empty(it.task))
        t    == strip(or_empty(it.type))
    IN  IF AnyIn(routine_kw, task)
        THEN [it EXCEPT !.type = <<"ROUTINE">>]
        ELSE IF AnyIn(hobby_kw, task) /\ ~AnyIn(hobby_except_kw, task)
        THEN [it EXCEPT !.type = <<"HOBBY">>]
        ELSE IF AnyIn(meal_kw, task) /\ t # <<"COOKING">>
        THEN [it EXCEPT !.type = IF AnyIn(cooking_intent_kw, task)
                                 THEN <<"COOKING">> ELSE <<"MEAL">>]
        ELSE it

\* mutant: the pass without the demotion of lines 117-120
mutant_guardrail_no_demotion(it) ==
    LET task == strip(or_empty(it.task))
    IN  IF AnyIn(routine_kw, task)
        THEN [it EXCEPT !.type = <<"ROUTINE">>]
        ELSE IF AnyIn(hobby_kw, task) /\ ~AnyIn(hobby_except_kw, task)
        THEN [it EXCEPT !.type = <<"HOBBY">>]
        ELSE IF AnyIn(meal_kw, task)
        THEN [it EXCEPT !.type = IF AnyIn(cooking_intent_kw, task)
                                 THEN <<"COOKING">> ELSE <<"MEAL">>]
        ELSE it

\* mutant: the HOBBY rule is tried before the ROUTINE rule
mutant_guardrail_hobby_first(it) ==
    LET task == strip(or_empty(it.task))
        t    == strip(or_empty(it.type))
    IN  IF AnyIn(hobby_kw, task) /\ ~AnyIn(hobby_except_kw, task)
        THEN [it EXCEPT !.type = <<"HOBBY">>]
        ELSE IF AnyIn(routine_kw, task)
        THEN [it EXCEPT !.type = <<"ROUTINE">>]
        ELSE IF AnyIn(meal_kw, task)
        THEN [it EXCEPT !.type = IF AnyIn(cooking_intent_kw, task)
                                 THEN <<"COOKING">> ELSE <<"MEAL">>]
        ELSE IF t = <<"COOKING">> /\ ~AnyIn(cooking_intent_kw, task)
        THEN [it EXCEPT !.type = <<"MEAL">>]
        ELSE it

\* the body of the loop of _apply_type_guardrails (lines 95-120)
guardrail_item(it) ==
    LET task == strip(or_empty(it.task))
        t    == strip(or_empty(it.type))
    IN  IF AnyIn(routine_kw, task)
        THEN [it EXCEPT !.type = <<"ROUTINE">>]
        ELSE IF AnyIn(hobby_kw, task) /\ ~AnyIn(hobby_except_kw, task)
        THEN [it EXCEPT !.type = <<"HOBBY">>]
        ELSE IF AnyIn(meal_kw, task)
        THEN [it EXCEPT !.type = IF AnyIn(cooking_intent_kw, task)
                                 THEN <<"COOKING">> ELSE <<"MEAL">>]
        ELSE IF t = <<"COOKING">> /\ ~AnyIn(cooking_intent_kw, task)
        THEN [it EXCEPT !.type = <<"MEAL">>]
        ELSE it

_apply_type_guardrails(schedule) ==
    [i \in 1..Len(schedule) |-> guardrail_item(schedule[i])]

\* the separators of re.split(r"[,/]| 또는 | 혹은 ", task), in the order tried
MenuSeparators ==
    << <<",">>, <<"/">>, <<" ", "tto", "neun", " ">>, <<" ", "hok", "eun", " ">> >>

SeparatorAt(s, i) == \E n \in 1..Len(MenuSeparators) : IsPrefixAt(s, MenuSeparators[n], i)

SeparatorLenAt(s, i) ==
    Len(MenuSeparators[CHOOSE n \in 1..Len(MenuSeparators) :
            /\ IsPrefixAt(s, MenuSeparators[n], i)
            /\ \A m \in 1..(n - 1) : ~IsPrefixAt(s, MenuSeparators[m], i)])

\* re.split: cut at the leftmost match, go on after it
RECURSIVE re_split(_)
re_split(s) ==
    IF \A i \in 1..Len(s) : ~SeparatorAt(s, i)
    THEN <<s>>
    ELSE LET k == CHOOSE i \in 1..Len(s) :
                      SeparatorAt(s, i) /\ \A j \in 1..(i - 1) : ~SeparatorAt(s, j)
         IN  <<SubSeq(s, 1, k - 1)>>
             \o re_split(SubSeq(s, k + SeparatorLenAt(s, k), Len(s)))

\* 중 하나 먹기, 먹기, 먹어요, 하기, 훈련, 연습 (line 148)
MenuSuffixes ==
    << <<"jung", " ", "ha", "na", " ", "meok", "gi">>, <<"meok", "gi">>,
       <<"meok", "eo", "yo">>, <<"ha", "gi">>, <<"hun", "ryeon">>, <<"yeon", "seup">> >>

endswith(s, suffix) ==
    Len(suffix) <= Len(s) /\ IsPrefixAt(s, suffix, Len(s) - Len(suffix) + 1)

\* the loop over the suffixes (lines 148-150), from suffix n on
RECURSIVE trim_suffixes(_, _)
trim_suffixes(name, n) ==
    IF n > Len(MenuSuffixes) THEN name
    ELSE IF endswith(name, MenuSuffixes[n])
         THEN trim_suffixes(strip(SubSeq(name, 1, Len(name) - Len(MenuSuffixes[n]))), n + 1)
         ELSE trim_suffixes(name, n + 1)

\* name.split()[0] of a stripped, non-empty name
first_word(name) ==
    IF \A i \in 1..Len(name) : ~IsSpace(name[i]) THEN name
    ELSE SubSeq(name, 1, (CHOOSE i \in 1..Len(name) :
                             IsSpace(name[i]) /\ \A j \in 1..(i - 1) : ~IsSpace(name[j])) - 1)

InSeq(x, seq) == \E i \in 1..Len(seq) : seq[i] = x

\* the loop over the fragments (lines 143-156)
RECURSIVE clean_parts(_, _, _)
clean_parts(rough, n, cleaned) ==
    IF n > Len(rough) THEN cleaned
    ELSE LET name0 == strip(rough[n])
             name1 == trim_suffixes(name0, 1)
             name2 == IF Len(name1) > 10 /\ \E i \in 1..Len(name1) : IsSpace(name1[i])
                      THEN first_word(name1) ELSE name1
         IN  IF name0 = <<>> THEN clean_parts(rough, n + 1, cleaned)
             ELSE IF name2 # <<>> /\ ~InSeq(name2, cleaned)
                  THEN clean_parts(rough, n + 1, Append(cleaned, name2))
                  ELSE clean_parts(rough, n + 1, cleaned)

\* mutant: no rule-based extraction after an empty answer of the service
mutant_extract_menu_names(task_arg, suggested) ==
    LET task == strip(or_empty(task_arg))
    IN  IF task = <<>> THEN <<>> ELSE suggested

\* _extract_menu_names_from_task; suggested: what suggest_recipes_from_text
\* returns for the task
_extract_menu_names_from_task(task_arg, suggested) ==
    LET task == strip(or_empty(task_arg))
    IN  IF task = <<>> THEN <<>>
        ELSE IF suggested # <<>> THEN suggested
        ELSE clean_parts(re_split(task), 1, <<>>)

MenuCandidate(name) ==
    [name |-> name, image |-> "assets/images/default_food.png", video_url |-> <<>>]

\* mutant: the pass does not skip a slot that has menus
mutant_attach_item(item, suggested) ==
    IF item.type # <<"COOKING">> THEN item
    ELSE LET task_text == item.task
             names0 == _extract_menu_names_from_task(task_text, suggested)
             names  == IF names0 = <<>> /\ or_empty(task_text) # <<>>
                       THEN <<task_text>> ELSE names0
         IN  IF names = <<>> THEN item
             ELSE [item EXCEPT !.menus = [i \in 1..Len(names) |-> MenuCandidate(names[i])]]

\* the body of the loop of _auto_attach_cooking_candidates (lines 167-189)
attach_item(item, suggested) ==
    IF item.type # <<"COOKING">> THEN item
    ELSE IF item.menus # <<>> THEN item
    ELSE LET task_text == item.task
             names0 == _extract_menu_names_from_task(task_text, suggested)
             names  == IF names0 = <<>> /\ or_empty(task_text) # <<>>
                       THEN <<task_text>> ELSE names0
         IN  IF names = <<>> THEN item
             ELSE [item EXCEPT !.menus = [i \in 1..Len(names) |-> MenuCandidate(names[i])]]

\* suggested[i]: the answer of the name-extraction service for slot i
_auto_attach_cooking_candidates(schedule, suggested) ==
    [i \in 1..Len(schedule) |-> attach_item(schedule[i], suggested[i])]

NzIdle ==
    /\ nz_schedule = <<>>
    /\ nz_trace = <<>>

\* the coordinator session before its first run; the parser not called; no
\* file, no save, no load
CoIdle ==
    /\ co_schedule = <<>>
    /\ co_uuid = 0
    /\ co_last = [op |-> "none", outcome |-> "ok", runs |-> 0]

PtIdle ==
    /\ pt_input = <<>>
    /\ pt_result = [called |-> FALSE, raised |-> FALSE, val |-> 0]

FsIdle ==
    /\ fs_disk = [exists |-> FALSE, text |-> <<>>]
    /\ fs_writer = [open |-> FALSE, todo |-> <<>>]
    /\ fs_saved = [date |-> <<>>, schedule |-> <<>>]
    /\ fs_loaded = [status |-> "none", date_str |-> <<>>, schedule |-> <<>>]

(***************************************************************************)
(* pages/2: the follow-along page.                                         *)
(***************************************************************************)
PRE_NOTICE_MINUTES == 5

\* the characters of the time strings in code-point order, for sorted(key=str)
Charset == <<" ", "+", "-", "0", "1", "2", "3", "4", "5", "6", "7", "8", "9",
             ":", "N", "e", "n", "o">>

OrdTable == [c \in {Charset[i] : i \in 1..Len(Charset)} |->
                CHOOSE i \in 1..Len(Charset) : Charset[i] = c]

Ord(c) == OrdTable[c]

\* a <= b for Python strings
RECURSIVE StrLe(_, _)
StrLe(a, b) ==
    IF a = <<>> THEN TRUE
    ELSE IF b = <<>> THEN FALSE
    ELSE IF Head(a) = Head(b) THEN StrLe(Tail(a), Tail(b))
    ELSE Ord(Head(a)) < Ord(Head(b))

\* str(v)
str(v) == IF v = None THEN <<"N", "o", "n", "e">> ELSE v

\* the file as found on disk: absent, or a document
NoFile == [exists |-> FALSE, date |-> <<>>, schedule |-> <<>>]

\* a load that keeps the order of the file
mutant_load_insert(sorted, item) == Append(sorted, item)

\* _load_schedule's sorted(schedule, key=str(time)): stable
RECURSIVE load_insert(_, _)
load_insert(sorted, item) ==
    IF sorted = <<>>
    THEN <<item>>
    ELSE IF StrLe(str(sorted[Len(sorted)].time), str(item.time))
         THEN Append(sorted, item)
         ELSE Append(load_insert(SubSeq(sorted, 1, Len(sorted) - 1), item),
                     sorted[Len(sorted)])

RECURSIVE load_sorted(_, _)
load_sorted(schedule, n) ==
    IF n = 0 THEN <<>> ELSE load_insert(load_sorted(schedule, n - 1), schedule[n])

\* _load_schedule of an existing file
_load_schedule(f) ==
    [schedule |-> load_sorted(f.schedule, Len(f.schedule)), date_str |-> f.date]

\* _make_slot_key
_make_slot_key(date_str, slot) ==
    date_str \o <<"_">> \o str(slot.time) \o <<"_">> \o slot.type \o <<"_">> \o slot.task

AllDigits(s) == \A i \in 1..Len(s) : IsDigit(s[i])

\* datetime.strptime(hhmm, "%H:%M").time(): one or two digits, a colon, one
\* or two digits, nothing else; ok = FALSE stands for ValueError
strptime_hm(s) ==
    LET parts == split(s, ":")
    IN  IF /\ Len(parts) = 2
           /\ Len(parts[1]) \in 1..2 /\ AllDigits(parts[1]) /\ DecVal(parts[1]) <= 23
           /\ Len(parts[2]) \in 1..2 /\ AllDigits(parts[2]) /\ DecVal(parts[2]) <= 59
        THEN [ok |-> TRUE, val |-> DecVal(parts[1]) * 60 + DecVal(parts[2])]
        ELSE [ok |-> FALSE, val |-> 0]

DaysInMonth(y, m) ==
    IF m = 2 THEN (IF (y % 4 = 0 /\ y % 100 # 0) \/ y % 400 = 0 THEN 29 ELSE 28)
    ELSE IF m \in {4, 6, 9, 11} THEN 30 ELSE 31

\* datetime.strptime(date_str, "%Y-%m-%d").date()
strptime_ymd(s) ==
    LET parts == split(s, "-")
        bad   == [ok |-> FALSE, date |-> [y |-> 0, m |-> 0, d |-> 0]]
    IN  IF /\ Len(parts) = 3
           /\ Len(parts[1]) = 4 /\ AllDigits(parts[1])
           /\ Len(parts[2]) \in 1..2 /\ AllDigits(parts[2])
           /\ Len(parts[3]) \in 1..2 /\ AllDigits(parts[3])
        THEN LET y == DecVal(parts[1])
                 m == DecVal(parts[2])
                 d == DecVal(parts[3])
             IN  IF y >= 1 /\ m \in 1..12 /\ d >= 1 /\ d <= DaysInMonth(y, m)
                 THEN [ok |-> TRUE, date |-> [y |-> y, m |-> m, d |-> d]]
                 ELSE bad
        ELSE bad

Pad2(n) == <<Digits[(n \div 10) + 1], Digits[(n % 10) + 1]>>

\* date.isoformat()
isoformat(dt) ==
    Pad2(dt.y \div 100) \o Pad2(dt.y % 100) \o <<"-">> \o Pad2(dt.m) \o <<"-">> \o Pad2(dt.d)

\* datetime.now(KST).date(): the model's days are days of November 2026
Today == [y |-> 2026, m |-> 11, d |-> clock.d]

\* st.session_state.get(key, default) and st.session_state[key] = value
ss_get(state, key, default) == IF key \in DOMAIN state THEN state[key] ELSE default

ss_set(state, key, value) ==
    [k \in DOMAIN state \cup {key} |-> IF k = key THEN value ELSE state[k]]

\* `if key not in st.session_state: st.session_state[key] = default`
ss_default(state, key, default) ==
    IF key \in DOMAIN state THEN state ELSE ss_set(state, key, default)

\* _render_audio_unlock_ui; click: the "소리 켜기" button was pressed
_render_audio_unlock_ui(state, click) ==
    LET s1 == ss_default(state, "audio_unlocked", FALSE)
    IN  IF s1["audio_unlocked"] THEN s1
        ELSE IF click THEN ss_set(s1, "audio_unlocked", TRUE) ELSE s1

\* A run of _auto_tts_logic: the session state, the narrations whose
\* synthesis was requested, those that were played, whether an exception
\* left the function, and whether the function has returned.
Event(kind, key) == [kind |-> kind, key |-> key]

\* synthesize_tts(text) for a non-empty text: "audio" (bytes), "none" (no
\* bytes) or "raise" (the OpenAI client or call raises; nothing catches it)
SynthOutcomes == {"audio", "none", "raise"}

\* rule 1 of _auto_tts_logic (lines 365-382): the greeting
mutant_greeting_rule(r, active_key, has_active, synth) ==
    IF ~r.ss["greeting_tts_done"]
    THEN IF synth = "raise"
         THEN [r EXCEPT !.requested = Append(@, Event("greeting", active_key)),
                        !.raised = TRUE, !.returned = TRUE]
         ELSE [r EXCEPT !.requested = Append(@, Event("greeting", active_key)),
                        !.played = IF synth = "audio"
                                   THEN Append(@, Event("greeting", active_key)) ELSE @,
                        !.ss = ss_set(@, "greeting_tts_done", TRUE)]
    ELSE r

greeting_rule(r, active_key, has_active, synth) ==
    IF ~r.ss["greeting_tts_done"]
    THEN IF synth = "raise"
         THEN [r EXCEPT !.requested = Append(@, Event("greeting", active_key)),
                        !.raised = TRUE, !.returned = TRUE]
         ELSE [r EXCEPT !.requested = Append(@, Event("greeting", active_key)),
                        !.played = IF synth = "audio"
                                   THEN Append(@, Event("greeting", active_key)) ELSE @,
                        !.ss = ss_set(@, "greeting_tts_done", TRUE),
                        !.returned = TRUE]
    ELSE r

\* rule 2 (lines 384-402): the active slot changed
\* the slot rule without the assignments of lines 399-400: the narration is
\* requested and the key is not stored
mutant_slot_rule(r, active_key, has_active, synth) ==
    IF has_active /\ r.ss["full_narrated_slot_key"] # active_key
    THEN IF synth = "raise"
         THEN [r EXCEPT !.requested = Append(@, Event("slot", active_key)),
                        !.raised = TRUE, !.returned = TRUE]
         ELSE [r EXCEPT !.requested = Append(@, Event("slot", active_key)),
                        !.played = IF synth = "audio"
                                   THEN Append(@, Event("slot", active_key)) ELSE @,
                        !.returned = TRUE]
    ELSE r

slot_rule(r, active_key, has_active, synth) ==
    IF has_active /\ r.ss["full_narrated_slot_key"] # active_key
    THEN IF synth = "raise"
         THEN [r EXCEPT !.requested = Append(@, Event("slot", active_key)),
                        !.raised = TRUE, !.returned = TRUE]
         ELSE [r EXCEPT !.requested = Append(@, Event("slot", active_key)),
                        !.played = IF synth = "audio"
                                   THEN Append(@, Event("slot", active_key)) ELSE @,
                        !.ss = ss_set(ss_set(@, "full_narrated_slot_key", active_key),
                                      "last_tts_slot_key", active_key),
                        !.returned = TRUE]
    ELSE r

\* 0 < diff_min <= PRE_NOTICE_MINUTES, with next_dt - now in seconds
in_pre_notice_window(hm, now_s) ==
    0 < hm * 60 - now_s /\ hm * 60 - now_s <= PRE_NOTICE_MINUTES * 60

\* mutant: the pre-notice does not look at last_pre_notice_slot_key
mutant_pre_notice_rule(r, date_str, next_slot, has_next, now_s, synth) ==
    IF ~has_next THEN r
    ELSE LET hm == strptime_hm(strip(str(next_slot.time)))
             next_key == _make_slot_key(date_str, next_slot)
         IN  IF ~hm.ok THEN [r EXCEPT !.returned = TRUE]
             ELSE IF in_pre_notice_window(hm.val, now_s)
                  THEN IF synth = "raise"
                       THEN [r EXCEPT !.requested = Append(@, Event("prenotice", next_key)),
                                      !.raised = TRUE, !.returned = TRUE]
                       ELSE [r EXCEPT !.requested = Append(@, Event("prenotice", next_key)),
                                      !.played = IF synth = "audio"
                                                 THEN Append(@, Event("prenotice", next_key))
                                                 ELSE @,
                                      !.ss = ss_set(@, "last_pre_notice_slot_key", next_key),
                                      !.returned = TRUE]
                  ELSE r

\* rule 3 (lines 404-418): the pre-start notice
pre_notice_rule(r, date_str, next_slot, has_next, now_s, synth) ==
    IF ~has_next THEN r
    ELSE LET hm == strptime_hm(strip(str(next_slot.time)))
             next_key == _make_slot_key(date_str, next_slot)
         IN  IF ~hm.ok THEN [r EXCEPT !.returned = TRUE]
             ELSE IF /\ in_pre_notice_window(hm.val, now_s)
                     /\ r.ss["last_pre_notice_slot_key"] # next_key
                  THEN IF synth = "raise"
                       THEN [r EXCEPT !.requested = Append(@, Event("prenotice", next_key)),
                                      !.raised = TRUE, !.returned = TRUE]
                       ELSE [r EXCEPT !.requested = Append(@, Event("prenotice", next_key)),
                                      !.played = IF synth = "audio"
                                                 THEN Append(@, Event("prenotice", next_key))
                                                 ELSE @,
                                      !.ss = ss_set(@, "last_pre_notice_slot_key", next_key),
                                      !.returned = TRUE]
                  ELSE r

\* the checks before the rules (lines 341-353): the schedule is today's and
\* the audio is unlocked
\* mutant: the gate without the check of audio_unlocked (lines 352-353)
mutant_auto_tts_gate_open(state, today, date_str) ==
    LET sd == strptime_ymd(date_str)
    IN  /\ sd.ok
        /\ sd.date = today

auto_tts_gate_open(state, today, date_str) ==
    LET sd == strptime_ymd(date_str)
    IN  /\ sd.ok
        /\ sd.date = today
        /\ ss_get(state, "audio_unlocked", FALSE)

\* lines 355-363
auto_tts_defaults(state) ==
    ss_default(ss_default(ss_default(ss_default(state,
        "greeting_tts_done", FALSE),
        "last_tts_slot_key", <<>>),
        "last_pre_notice_slot_key", <<>>),
        "full_narrated_slot_key", <<>>)

\* _auto_tts_logic(now, date_str, active, next_item); the slots are given by
\* their positions in `schedule`, 0 for None
\* mutant: the slot rule is skipped for a slot whose pre-notice was given
mutant_auto_tts_logic(state, today, now_s, date_str, schedule, found, synth) ==
    LET quiet == [ss |-> state, requested |-> <<>>, played |-> <<>>,
                  raised |-> FALSE, returned |-> TRUE, gated |-> TRUE]
    IN  IF ~auto_tts_gate_open(state, today, date_str)
        THEN quiet
        ELSE LET has_active == found.active # 0
                 has_next   == found.next_item # 0
                 active_key == IF has_active
                               THEN _make_slot_key(date_str, schedule[found.active])
                               ELSE <<>>
                 next_slot  == IF has_next THEN schedule[found.next_item]
                               ELSE [time |-> <<>>, type |-> <<>>, task |-> <<>>]
                 r0 == [ss |-> auto_tts_defaults(state), requested |-> <<>>,
                        played |-> <<>>, raised |-> FALSE, returned |-> FALSE,
                        gated |-> FALSE]
                 r1 == greeting_rule(r0, active_key, has_active, synth)
                 r2 == IF r1.returned \/ r1.ss["last_pre_notice_slot_key"] = active_key
                       THEN r1
                       ELSE slot_rule(r1, active_key, has_active, synth)
                 r3 == IF r2.returned THEN r2
                       ELSE pre_notice_rule(r2, date_str, next_slot, has_next, now_s, synth)
             IN  r3

_auto_tts_logic(state, today, now_s, date_str, schedule, found, synth) ==
    LET quiet == [ss |-> state, requested |-> <<>>, played |-> <<>>,
                  raised |-> FALSE, returned |-> TRUE, gated |-> TRUE]
    IN  IF ~auto_tts_gate_open(state, today, date_str)
        THEN quiet
        ELSE LET has_active == found.active # 0
                 has_next   == found.next_item # 0
                 active_key == IF has_active
                               THEN _make_slot_key(date_str, schedule[found.active])
                               ELSE <<>>
                 next_slot  == IF has_next THEN schedule[found.next_item]
                               ELSE [time |-> <<>>, type |-> <<>>, task |-> <<>>]
                 r0 == [ss |-> auto_tts_defaults(state), requested |-> <<>>,
                        played |-> <<>>, raised |-> FALSE, returned |-> FALSE,
                        gated |-> FALSE]
                 r1 == greeting_rule(r0, active_key, has_active, synth)
                 r2 == IF r1.returned THEN r1
                       ELSE slot_rule(r1, active_key, has_active, synth)
                 r3 == IF r2.returned THEN r2
                       ELSE pre_notice_rule(r2, date_str, next_slot, has_next, now_s, synth)
             IN  r3

(***************************************************************************)
(* user_page: one run of the page script (a polling tick or a click).      *)
(***************************************************************************)
TickIdle ==
    [outcome |-> "idle", requested |-> <<>>, played |-> <<>>,
     pre |-> [greeting_tts_done |-> FALSE, full_narrated_slot_key |-> <<>>,
              last_pre_notice_slot_key |-> <<>>],
     prev_eval_date |-> None]

\* what the claims need of the past: the pre-notices played and the slot
\* narrations of completed runs since the document was saved (slot_done
\* starts, at a save, from the key the session remembers as narrated)
HistInit ==
    [pre_played |-> <<>>, slot_done |-> <<>>, run_n |-> 0, run_key |-> <<>>,
     eval_date |-> None]

\* the narration state a run starts from (absent keys read as their defaults)
NarrationState(state) ==
    [greeting_tts_done        |-> ss_get(state, "greeting_tts_done", FALSE),
     full_narrated_slot_key   |-> ss_get(state, "full_narrated_slot_key", <<>>),
     last_pre_notice_slot_key |-> ss_get(state, "last_pre_notice_slot_key", <<>>)]

\* whether the next slot starts within the pre-notice window of now
NextInWindow(schedule, found, now_s) ==
    /\ found.next_item # 0
    /\ LET t == parse_hhmm_to_time(schedule[found.next_item].time)
       IN  0 < t * 60 - now_s /\ t * 60 - now_s <= PRE_NOTICE_MINUTES * 60

Min(a, b) == IF a <= b THEN a ELSE b

RECURSIVE KeysOf(_, _)
KeysOf(events, kind) ==
    IF events = <<>> THEN <<>>
    ELSE (IF Head(events).kind = kind THEN <<Head(events).key>> ELSE <<>>)
         \o KeysOf(Tail(events), kind)

\* the history after a run of _auto_tts_logic
HistAfter(h, r, date_str, schedule, found, now_s) ==
    LET quiet_case == /\ ~r.gated /\ ~r.raised
                      /\ r.played = r.requested
                      /\ found.active # 0
                      /\ ~NextInWindow(schedule, found, now_s)
        active_key == IF found.active # 0
                      THEN _make_slot_key(date_str, schedule[found.active]) ELSE <<>>
        greeted    == KeysOf(r.requested, "greeting") # <<>>
    IN  [pre_played |-> h.pre_played \o KeysOf(r.played, "prenotice"),
         slot_done  |-> h.slot_done \o (IF r.raised THEN <<>>
                                        ELSE KeysOf(r.requested, "slot")),
         eval_date  |-> IF r.gated THEN h.eval_date ELSE date_str,
         run_n      |-> IF quiet_case /\ greeted THEN 1
                        ELSE IF quiet_case /\ h.run_n >= 1 /\ h.run_key = active_key
                             THEN Min(h.run_n + 1, RunCap)
                             ELSE 0,
         run_key    |-> IF quiet_case /\ (greeted \/ (h.run_n >= 1 /\ h.run_key = active_key))
                        THEN active_key ELSE <<>>]

TickOf(outcome, r, state, h) ==
    [outcome |-> outcome, requested |-> r.requested, played |-> r.played,
     pre |-> NarrationState(state), prev_eval_date |-> h.eval_date]

\* a page that forgets the greeting when the document has no slots
mutant_user_page(click, synth) ==
    LET s1 == _render_audio_unlock_ui(ss, click)
        none == [requested |-> <<>>, played |-> <<>>]
    IN  IF ~file.exists
        THEN /\ ss' = s1
             /\ tick' = TickOf("no_file", none, ss, hist)
             /\ hist' = [hist EXCEPT !.run_n = 0, !.run_key = <<>>]
        ELSE LET ld == _load_schedule(file)
                 s2 == ss_set(s1, "schedule_date_str", ld.date_str)
             IN  IF ld.schedule = <<>>
                 THEN /\ ss' = ss_set(s2, "greeting_tts_done", FALSE)
                      /\ tick' = TickOf("empty", none, ss, hist)
                      /\ hist' = [hist EXCEPT !.run_n = 0, !.run_key = <<>>]
                 ELSE LET found == find_active_item(ld.schedule, clock.s)
                          r == _auto_tts_logic(s2, Today, clock.s, ld.date_str,
                                               ld.schedule, found, synth)
                      IN  /\ ss' = r.ss
                          /\ tick' = TickOf(IF r.gated THEN "gated"
                                            ELSE IF r.raised THEN "raised" ELSE "ran",
                                            r, ss, hist)
                          /\ hist' = HistAfter(hist, r, ld.date_str, ld.schedule,
                                               found, clock.s)

\* user_page (lines 589-620); click: the run was started by "소리 켜기"
user_page(click, synth) ==
    LET s1 == _render_audio_unlock_ui(ss, click)
        none == [requested |-> <<>>, played |-> <<>>]
    IN  IF ~file.exists
        THEN /\ ss' = s1
             /\ tick' = TickOf("no_file", none, ss, hist)
             /\ hist' = [hist EXCEPT !.run_n = 0, !.run_key = <<>>]
        ELSE LET ld == _load_schedule(file)
                 s2 == ss_set(s1, "schedule_date_str", ld.date_str)
             IN  IF ld.schedule = <<>>
                 THEN /\ ss' = s2
                      /\ tick' = TickOf("empty", none, ss, hist)
                      /\ hist' = [hist EXCEPT !.run_n = 0, !.run_key = <<>>]
                 ELSE LET found == find_active_item(ld.schedule, clock.s)
                          r == _auto_tts_logic(s2, Today, clock.s, ld.date_str,
                                               ld.schedule, found, synth)
                      IN  /\ ss' = r.ss
                          /\ tick' = TickOf(IF r.gated THEN "gated"
                                            ELSE IF r.raised THEN "raised" ELSE "ran",
                                            r, ss, hist)
                          /\ hist' = HistAfter(hist, r, ld.date_str, ld.schedule,
                                               found, clock.s)

\* "08:00", "08:04", "8:02"
UpTime0800 == <<"0", "8", ":", "0", "0">>
UpTime0804 == <<"0", "8", ":", "0", "4">>
UpTime802  == <<"8", ":", "0", "2">>

\* "산책"
UpTask == <<"san", "chaek">>

\* the slots of the documents: two slots at 08:00 that differ in their type,
\* one at 08:04, and one whose time "8:02" sorts last as a string
UpSlots ==
    { [time |-> UpTime0800, type |-> <<"GENERAL">>, task |-> UpTask],
      [time |-> UpTime0800, type |-> <<"HEALTH">>,  task |-> UpTask],
      [time |-> UpTime0804, type |-> <<"GENERAL">>, task |-> UpTask],
      [time |-> UpTime802,  type |-> <<"HEALTH">>,  task |-> UpTask] }

\* clock readings of the first day: 07:54:30, 07:55:00, 08:00:00, 08:03:00,
\* 08:04:00; of the next day: 08:00:00
ClockValues ==
    << [d |-> 2, s |-> 28470], [d |-> 2, s |-> 28500], [d |-> 2, s |-> 28800],
       [d |-> 2, s |-> 28980], [d |-> 2, s |-> 29040], [d |-> 3, s |-> 28800] >>

ClockStart == ClockValues[1]

UpIdle ==
    /\ file = NoFile
    /\ clock = ClockStart
    /\ ss = <<>>
    /\ tick = TickIdle
    /\ hist = HistInit

\* a new session: no file yet, or an empty document saved today
UpInit ==
    /\ file \in { NoFile,
                  [exists |-> TRUE, date |-> isoformat([y |-> 2026, m |-> 11, d |-> 2]),
                   schedule |-> <<>>] }
    /\ clock = ClockStart
    /\ ss = <<>>
    /\ tick = TickIdle
    /\ hist = HistInit
    /\ RtIdle
    /\ NzIdle
    /\ CoIdle
    /\ PtIdle
    /\ FsIdle

\* a run of the page: the auto-refresh, or the click on "소리 켜기"
Tick ==
    \E click \in BOOLEAN, synth \in SynthOutcomes :
        /\ click => ~ss_get(ss, "audio_unlocked", FALSE)
        /\ user_page(click, synth)
        /\ UNCHANGED <<file, clock>>
        /\ UNCHANGED rtVars
    /\ UNCHANGED nzVars
    /\ UNCHANGED coVars
    /\ UNCHANGED ptVars
    /\ UNCHANGED fsVars

\* time passes, to the next reading of the clock
ClockAdvance ==
    \E i \in 1..(Len(ClockValues) - 1) :
        /\ clock = ClockValues[i]
        /\ clock' = ClockValues[i + 1]
        /\ tick' = TickIdle
        /\ UNCHANGED <<file, ss, hist>>
        /\ UNCHANGED rtVars
    /\ UNCHANGED nzVars
    /\ UNCHANGED coVars
    /\ UNCHANGED ptVars
    /\ UNCHANGED fsVars

\* _save_schedule_to_file (pages/1, lines 54-63): the file is replaced by
\* today's date and the coordinator's schedule.  A save differs from the
\* file by one slot added or removed at the end; saves that follow each
\* other without a run of the page in between reach every document whose
\* slots differ from each other in time or category.
SaveFile(sch) ==
    /\ file' = [exists |-> TRUE, date |-> isoformat(Today), schedule |-> sch]
    /\ tick' = TickIdle
    /\ hist' = [hist EXCEPT !.pre_played = <<>>, !.run_n = 0, !.run_key = <<>>,
                            !.slot_done = IF NarrationState(ss).full_narrated_slot_key = <<>>
                                          THEN <<>>
                                          ELSE <<NarrationState(ss).full_narrated_slot_key>>]
    /\ UNCHANGED <<clock, ss>>
    /\ UNCHANGED rtVars
    /\ UNCHANGED nzVars
    /\ UNCHANGED coVars
    /\ UNCHANGED ptVars
    /\ UNCHANGED fsVars

CoordinatorSaveAdded ==
    \E slot \in UpSlots :
        /\ Len(file.schedule) < MaxDocSlots
        /\ \A i \in 1..Len(file.schedule) : file.schedule[i] # slot
        /\ SaveFile(Append(file.schedule, slot))

CoordinatorSaveRemoved ==
    /\ file.schedule # <<>>
    /\ SaveFile(SubSeq(file.schedule, 1, Len(file.schedule) - 1))

UpNext == Tick \/ ClockAdvance \/ CoordinatorSaveAdded \/ CoordinatorSaveRemoved

SpecUser == UpInit /\ [][UpNext]_vars

(***************************************************************************)
(* SpecRuntime: find_active_item and annotate_schedule_with_status on      *)
(* every list of up to MaxSlots slots and a sample of clock readings.      *)
(***************************************************************************)
\* "08:00", "09:00", "9:00" (the same time as "09:00"), "25:99", "", None
RtTimeSamples ==
    { <<"0", "8", ":", "0", "0">>,
      <<"0", "9", ":", "0", "0">>,
      <<"9", ":", "0", "0">>,
      <<"2", "5", ":", "9", "9">>,
      <<>>,
      None }

RtSlots == { [time |-> t] : t \in RtTimeSamples }

\* 00:00:00, 07:59:59, 08:00:00, 08:00:01, 09:00:00, 23:59:59
RtNowSamples == {0, 28799, 28800, 28801, 32400, 86399}

RtInit ==
    /\ rt_schedule \in UNION { [1..n -> RtSlots] : n \in 0..MaxSlots }
    /\ rt_now \in RtNowSamples
    /\ rt_called = {}
    /\ rt_found = [active |-> 0, next_item |-> 0]
    /\ rt_annotated = <<>>
    /\ UpIdle
    /\ NzIdle
    /\ CoIdle
    /\ PtIdle
    /\ FsIdle

RtFind ==
    /\ "find_active_item" \notin rt_called
    /\ rt_called' = rt_called \cup {"find_active_item"}
    /\ rt_found' = find_active_item(rt_schedule, rt_now)
    /\ rt_schedule' = find_input_after(rt_schedule, rt_now)
    /\ UNCHANGED <<rt_now, rt_annotated>>
    /\ UNCHANGED upVars
    /\ UNCHANGED nzVars
    /\ UNCHANGED coVars
    /\ UNCHANGED ptVars
    /\ UNCHANGED fsVars

RtAnnotate ==
    /\ "annotate_schedule_with_status" \notin rt_called
    /\ rt_called' = rt_called \cup {"annotate_schedule_with_status"}
    /\ rt_annotated' = annotate_schedule_with_status(rt_schedule, rt_now)
    /\ rt_schedule' = annotate_input_after(rt_schedule, rt_now)
    /\ UNCHANGED <<rt_now, rt_found>>
    /\ UNCHANGED upVars
    /\ UNCHANGED nzVars
    /\ UNCHANGED coVars
    /\ UNCHANGED ptVars
    /\ UNCHANGED fsVars

RtNext == RtFind \/ RtAnnotate

SpecRuntime == RtInit /\ [][RtNext]_vars

(***************************************************************************)
(* Claims about utils/runtime.py, checked under SpecRuntime.               *)
(***************************************************************************)
RtLen == Len(rt_schedule)
RtT(i) == parse_hhmm_to_time(rt_schedule[i].time)
RtStarted(i) == RtT(i) * 60 <= rt_now
RtFound == "find_active_item" \in rt_called
RtAnnotated == "annotate_schedule_with_status" \in rt_called

\* C1: find_active_item returns as `active` a slot whose parsed start time is
\* <= now and is the maximum such start time in the list, and it returns
\* active = None exactly when no slot has a start time <= now (the empty
\* list included).
C1_ActiveIsLatestStarted ==
    RtFound =>
        LET a == rt_found.active
        IN  /\ a \in 0..RtLen
            /\ a # 0 => /\ RtStarted(a)
                        /\ \A j \in 1..RtLen : RtStarted(j) => RtT(j) <= RtT(a)
            /\ a = 0 <=> \A j \in 1..RtLen : ~RtStarted(j)

\* C1 witness: an unsorted list where a later-placed slot started earlier
\* than the slot returned as active.
C1_Witness ==
    /\ RtFound
    /\ rt_found.active # 0
    /\ \E j \in 1..RtLen :
          j > rt_found.active /\ RtStarted(j) /\ RtT(j) < RtT(rt_found.active)

\* C2: find_active_item returns as `next` the slot with the minimum start
\* time strictly greater than now; next is None when the list is empty or
\* when every slot's start time is <= now; and when active is None next is
\* the earliest slot of the list.
C2_NextIsEarliestUpcoming ==
    RtFound =>
        LET n == rt_found.next_item
        IN  /\ n \in 0..RtLen
            /\ n # 0 => /\ ~RtStarted(n)
                        /\ \A j \in 1..RtLen : ~RtStarted(j) => RtT(n) <= RtT(j)
            /\ n = 0 <=> \A j \in 1..RtLen : RtStarted(j)
            /\ (rt_found.active = 0 /\ RtLen > 0) =>
                   (n # 0 /\ \A j \in 1..RtLen : RtT(n) <= RtT(j))

\* C2 witness: an active slot and a next slot, with a still later slot placed
\* before the next one in the input list.
C2_Witness ==
    /\ RtFound
    /\ rt_found.active # 0
    /\ rt_found.next_item # 0
    /\ \E j \in 1..RtLen :
          j < rt_found.next_item /\ RtT(j) > RtT(rt_found.next_item)

RtActiveMarked == { i \in 1..RtLen : rt_annotated[i].status = "active" }

\* C3: annotate_schedule_with_status marks exactly one slot `active` if some
\* slot has start time <= now and none otherwise, never more than one even
\* when several slots share a start time; among the slots tied at the maximal
\* start time <= now the last one in the stable time-sorted order (the last
\* of them in the list) is the active one, and it is the slot
\* find_active_item returns as active.
C3_ExactlyOneActive ==
    RtAnnotated =>
        /\ Len(rt_annotated) = RtLen
        /\ (\E j \in 1..RtLen : RtStarted(j)) => Cardinality(RtActiveMarked) = 1
        /\ (\A j \in 1..RtLen : ~RtStarted(j)) => RtActiveMarked = {}
        /\ \A a \in RtActiveMarked :
              /\ RtStarted(a)
              /\ \A j \in 1..RtLen : RtStarted(j) => RtT(j) <= RtT(a)
              /\ \A j \in 1..RtLen : (RtStarted(j) /\ RtT(j) = RtT(a)) => j <= a
              /\ RtFound => rt_found.active = a

\* C3 witness: two slots share the maximal start time <= now and one slot
\* is marked active.
C3_Witness ==
    /\ RtAnnotated
    /\ RtFound
    /\ \E a \in RtActiveMarked : \E j \in 1..RtLen :
          j # a /\ RtT(j) = RtT(a) /\ rt_schedule[j] # rt_schedule[a]

(***************************************************************************)
(* Claims about the narration state machine, checked under SpecUser.       *)
(* After a run of the page, `tick` describes that run and `file` and       *)
(* `clock` are still what the run read.                                    *)
(***************************************************************************)
\* the run evaluated the rules of _auto_tts_logic
TickEvaluated == tick.outcome \in {"ran", "raised"}

UpLoaded == _load_schedule(file)
UpFound == find_active_item(UpLoaded.schedule, clock.s)
UpHasActive == file.exists /\ UpFound.active # 0
UpHasNext == file.exists /\ UpFound.next_item # 0
UpActiveKey == _make_slot_key(file.date, UpLoaded.schedule[UpFound.active])
UpNextKey == _make_slot_key(file.date, UpLoaded.schedule[UpFound.next_item])
UpNextStartsIn ==
    parse_hhmm_to_time(UpLoaded.schedule[UpFound.next_item].time) * 60 - clock.s

Kinds(events) == [i \in 1..Len(events) |-> events[i].kind]

\* the conditions of the three rules, from the state the run started in
GreetingDue == ~tick.pre.greeting_tts_done
SlotChangeDue == UpHasActive /\ tick.pre.full_narrated_slot_key # UpActiveKey
PreNoticeDue ==
    /\ UpHasNext
    /\ 0 < UpNextStartsIn /\ UpNextStartsIn <= 5 * 60
    /\ tick.pre.last_pre_notice_slot_key # UpNextKey

\* C4: every run of the narration logic produces at most one narration,
\* chosen by strict precedence: the greeting wins over a slot-change
\* narration, and a slot-change narration over a pre-start notice, also when
\* the conditions of several rules hold in the same run.
C4_OneNarrationByPrecedence ==
    /\ Len(tick.requested) <= 1
    /\ Len(tick.played) <= 1
    /\ TickEvaluated =>
          /\ GreetingDue => Kinds(tick.requested) = <<"greeting">>
          /\ (~GreetingDue /\ SlotChangeDue) => Kinds(tick.requested) = <<"slot">>
          /\ (~GreetingDue /\ ~SlotChangeDue /\ PreNoticeDue) =>
                 Kinds(tick.requested) = <<"prenotice">>
          /\ (~GreetingDue /\ ~SlotChangeDue /\ ~PreNoticeDue) => tick.requested = <<>>

\* C4 witness: the conditions of all three rules held in one run, which
\* played the greeting alone.
C4_Witness ==
    /\ TickEvaluated
    /\ GreetingDue /\ SlotChangeDue /\ PreNoticeDue
    /\ Kinds(tick.played) = <<"greeting">>

\* C5: for a fixed document and an active slot that stays the same over
\* consecutive runs of one session (audio unlocked, the schedule is today's,
\* no next slot inside the pre-notice window), only the first run, the
\* greeting, produces a narration: the runs after it produce none, the
\* greeting having marked the active slot as narrated.
C5_QuietAfterGreeting ==
    (tick.outcome = "ran" /\ hist.run_n >= 2) => tick.requested = <<>>

NoDuplicates(seq) == \A i, j \in 1..Len(seq) : seq[i] = seq[j] => i = j

\* C6: a pre-start notice is produced only in a run where the next slot
\* starts more than 0 and at most 5 minutes after now and its key differs
\* from the last pre-notice key; for a fixed document it is played at most
\* once per upcoming slot, however many runs fall inside the window.
C6_PreNoticeOncePerSlot ==
    /\ (TickEvaluated /\ \E i \in 1..Len(tick.requested) :
                             tick.requested[i].kind = "prenotice") => PreNoticeDue
    /\ NoDuplicates(hist.pre_played)

\* C6 witness: a run inside the window of a slot whose notice was already
\* played stays silent.
C6_Witness ==
    /\ tick.outcome = "ran"
    /\ UpHasNext
    /\ 0 < UpNextStartsIn /\ UpNextStartsIn <= 5 * 60
    /\ \E i \in 1..Len(hist.pre_played) : hist.pre_played[i] = UpNextKey
    /\ tick.pre.last_pre_notice_slot_key = UpNextKey
    /\ tick.requested = <<>>

\* C7: the narration state is reset whenever the loaded document's date
\* differs from the date the session last evaluated, so the first run for a
\* new date greets again.
C7_GreetsAgainOnNewDate ==
    (TickEvaluated /\ tick.prev_eval_date # file.date) =>
        Kinds(tick.requested) = <<"greeting">>

\* C8: when speech synthesis fails for a narration the state machine decided
\* to produce, the run ends in silence without an exception, and the
\* narration state is advanced all the same, so that the narration is not
\* requested again.
C8_FailedSynthesisIsSilent ==
    (tick.requested # <<>> /\ tick.played = <<>>) =>
        /\ tick.outcome = "ran"
        /\ \A i \in 1..Len(tick.requested) :
              LET e == tick.requested[i]
              IN  /\ e.kind = "greeting" => ss_get(ss, "greeting_tts_done", FALSE)
                  /\ e.kind = "slot" => ss_get(ss, "full_narrated_slot_key", <<>>) = e.key
                  /\ e.kind = "prenotice" =>
                         ss_get(ss, "last_pre_notice_slot_key", <<>>) = e.key

(***************************************************************************)
(* SpecNorm: _apply_type_guardrails and _auto_attach_cooking_candidates    *)
(* applied, in any order and any number of times, to every list of up to   *)
(* MaxNormSlots sample slots.                                              *)
(***************************************************************************)
\* "샤워하기", "점심 먹기", "카레 만들어 먹기", "드라마 보기", "운동 영상 보기",
\* "라면 끓이기", "산책", "영상 보며 밥 먹기", "라면 또는 카레 중 하나 먹기"
NzShower == <<"sya", "wo", "ha", "gi">>
NzLunch == <<"jeom", "sim", " ", "meok", "gi">>
NzMakeCurry == <<"ka", "re", " ", "man", "deul", "eo", " ", "meok", "gi">>
NzDrama == <<"deu", "ra", "ma", " ", "bo", "gi">>
NzExerciseVideo == <<"un", "dong", " ", "yeong", "sang", " ", "bo", "gi">>
NzBoilRamen == <<"ra", "myeon", " ", "kkeulh", "i", "gi">>
NzWalk == <<"san", "chaek">>
NzVideoAndMeal == <<"yeong", "sang", " ", "bo", "myeo", " ", "bap", " ", "meok", "gi">>
\* "샤워 후 저녁 요리 영상 보기"
NzShowerDinnerVideo ==
    <<"sya", "wo", " ", "hu", " ", "jeo", "nyeok", " ", "yo", "ri", " ",
      "yeong", "sang", " ", "bo", "gi">>

\* "옷 갈아입기"
NzChangeClothes == <<"ot", " ", "gal", "a", "ip", "gi">>

\* "라면 또는 카레 중 하나 먹기"
NzRamenOrCurry ==
    <<"ra", "myeon", " ", "tto", "neun", " ", "ka", "re", " ",
      "jung", " ", "ha", "na", " ", "meok", "gi">>

\* menus a caregiver set by hand: "김밥"
NzCustomMenus ==
    << [name |-> <<"gim", "bap">>, image |-> "assets/images/gimbap.png",
        video_url |-> <<"h", "t", "t", "p", "s">>] >>

NzSlot(task, type, menus) == [task |-> task, type |-> type, menus |-> menus]

\* the sample slots: every rule of the guardrail and every branch of the
\* attachment is taken by one of them
NzSlots ==
    { NzSlot(NzShower, <<"COOKING">>, <<>>),
      NzSlot(NzShowerDinnerVideo, <<"HOBBY">>, <<>>),
      NzSlot(NzLunch, <<"COOKING">>, <<>>),
      NzSlot(NzMakeCurry, <<"GENERAL">>, <<>>),
      NzSlot(NzMakeCurry, <<"COOKING">>, NzCustomMenus),
      NzSlot(NzDrama, <<"GENERAL">>, <<>>),
      NzSlot(NzExerciseVideo, <<"COOKING">>, <<>>),
      NzSlot(NzBoilRamen, <<"COOKING">>, <<>>),
      NzSlot(NzWalk, <<" ", "COOKING">>, <<>>),
      NzSlot(NzWalk, None, <<>>),
      NzSlot(NzChangeClothes, <<"GENERAL">>, <<>>),
      NzSlot(NzVideoAndMeal, <<"GENERAL">>, <<>>),
      NzSlot(NzRamenOrCurry, <<"COOKING">>, <<>>),
      NzSlot(<<" ", " ">>, <<"COOKING">>, <<>>),
      NzSlot(<<>>, <<"COOKING">>, <<>>),
      NzSlot(None, <<"COOKING">>, <<>>) }

\* suggest_recipes_from_text (utils/recipes): a list of food names, possibly
\* empty: nothing, or "라면"
SuggestSamples ==
    { <<>>, << <<"ra", "myeon">> >> }

\* the slots for which _auto_attach_cooking_candidates reaches the call of
\* suggest_recipes_from_text (lines 168-174 and 131-136)
calls_service(item) ==
    /\ item.type = <<"COOKING">>
    /\ item.menus = <<>>
    /\ strip(or_empty(item.task)) # <<>>

\* the list a pass was given, kept for the last two passes
NzTraced(op, given) ==
    IF nz_trace = <<>> THEN << [op |-> op, given |-> given] >>
    ELSE << nz_trace[Len(nz_trace)], [op |-> op, given |-> given] >>

NzInit ==
    /\ nz_schedule \in UNION { [1..n -> NzSlots] : n \in 0..MaxNormSlots }
    /\ nz_trace = <<>>
    /\ RtIdle
    /\ UpIdle
    /\ CoIdle
    /\ PtIdle
    /\ FsIdle

\* schedule = _apply_type_guardrails(schedule) (lines 236, 325)
NzGuardrails ==
    /\ nz_schedule' = _apply_type_guardrails(nz_schedule)
    /\ nz_trace' = NzTraced("guardrails", nz_schedule)
    /\ UNCHANGED rtVars
    /\ UNCHANGED upVars
    /\ UNCHANGED coVars
    /\ UNCHANGED ptVars
    /\ UNCHANGED fsVars

\* schedule = _auto_attach_cooking_candidates(schedule) (lines 237, 326); the
\* service answers once for every slot it is called for
NzAttach ==
    \E suggested \in [1..Len(nz_schedule) -> SuggestSamples] :
        /\ \A i \in 1..Len(nz_schedule) :
              ~calls_service(nz_schedule[i]) => suggested[i] = <<>>
        /\ nz_schedule' = _auto_attach_cooking_candidates(nz_schedule, suggested)
        /\ nz_trace' = NzTraced("attach", nz_schedule)
        /\ UNCHANGED rtVars
        /\ UNCHANGED upVars
        /\ UNCHANGED coVars
        /\ UNCHANGED ptVars
        /\ UNCHANGED fsVars

NzNext == NzGuardrails \/ NzAttach

SpecNorm == NzInit /\ [][NzNext]_vars

(***************************************************************************)
(* Claims about the normalisation passes, checked under SpecNorm.          *)
(***************************************************************************)
NzLastOp == IF nz_trace = <<>> THEN "none" ELSE nz_trace[Len(nz_trace)].op
NzLastGiven == nz_trace[Len(nz_trace)].given
NzTwice(op) == Len(nz_trace) = 2 /\ nz_trace[1].op = op /\ nz_trace[2].op = op

\* C9: the guardrail pass is a fixed point after one application: applied to
\* its own output it changes nothing, for every slot list, whatever the task
\* texts and the prior categories.
C9_GuardrailFixedPoint ==
    /\ NzTwice("guardrails") => nz_schedule = NzLastGiven
    /\ _apply_type_guardrails(_apply_type_guardrails(nz_schedule))
           = _apply_type_guardrails(nz_schedule)

\* C9 witness: the pass ran twice in a row; the first run changed a category
\* (a COOKING slot without cooking intent became MEAL) and the second run
\* changed nothing.
C9_Witness ==
    /\ NzTwice("guardrails")
    /\ \E i \in 1..Len(nz_schedule) :
          /\ nz_trace[1].given[i].type = <<"COOKING">>
          /\ nz_trace[2].given[i].type = <<"MEAL">>
    /\ nz_schedule = NzLastGiven

\* C10: menu auto-attachment never changes the menus of a slot whose menus
\* are already non-empty, and it is idempotent: applied to its own output it
\* changes nothing, whatever the name-extraction service returns on the
\* second run.
C10_AttachKeepsMenus ==
    /\ NzLastOp = "attach" =>
          /\ Len(nz_schedule) = Len(NzLastGiven)
          /\ \A i \in 1..Len(nz_schedule) :
                NzLastGiven[i].menus # <<>> => nz_schedule[i] = NzLastGiven[i]
          /\ \A suggested \in [1..Len(nz_schedule) -> SuggestSamples] :
                _auto_attach_cooking_candidates(nz_schedule, suggested) = nz_schedule
    /\ NzTwice("attach") => nz_schedule = NzLastGiven

\* C10 witness: the pass ran twice in a row on a list with a slot that had
\* hand-set menus and a COOKING slot without menus; the first run attached
\* candidates to the latter and the second run changed nothing.
C10_Witness ==
    /\ NzTwice("attach")
    /\ \E i, j \in 1..Len(nz_schedule) :
          /\ nz_trace[1].given[i].menus = NzCustomMenus
          /\ nz_schedule[i].menus = NzCustomMenus
          /\ nz_trace[1].given[j].menus = <<>>
          /\ nz_schedule[j].menus # <<>>
    /\ nz_schedule = NzLastGiven

(***************************************************************************)
(* utils/schedule_ai.py and the handlers of coordinator_page (pages/1).    *)
(* A session slot is [id, time, type, task, menus]; id 0 and menus <<>>    *)
(* stand for an absent key.  A uuid is its ordinal number.                 *)
(***************************************************************************)
\* a key the generator's item does not have
Missing == <<"<missing>">>

\* raw.get(key, default)
get_default(v, default) == IF v = Missing THEN default ELSE v

\* str(v) of a type value, one token per word
str_word(v) == IF v = None THEN <<"None">> ELSE v

\* str.upper() of the words of the sample types
UpperWord(w) ==
    CASE w = "meal" -> "MEAL"
      [] w = "cook" -> "COOK"
      [] w = "Leisure" -> "LEISURE"
      [] w = "None" -> "NONE"
      [] OTHER -> w

upper(s) == [i \in 1..Len(s) |-> UpperWord(s[i])]

\* the mapping of _normalize_item (lines 97-111)
TypeMapping ==
    [ MORNING |-> "MORNING_BRIEFING", MORNING_BRIEFING |-> "MORNING_BRIEFING",
      COOK |-> "COOKING", COOKING |-> "COOKING", MEAL |-> "COOKING", EAT |-> "COOKING",
      HEALTH |-> "HEALTH", EXERCISE |-> "HEALTH", WORKOUT |-> "HEALTH",
      NIGHT |-> "NIGHT_WRAPUP", WRAPUP |-> "NIGHT_WRAPUP",
      NIGHT_WRAPUP |-> "NIGHT_WRAPUP", GENERAL |-> "GENERAL" ]

\* a lookup that hands an unknown key back
mutant_mapping_get(type_str) ==
    IF Len(type_str) = 1 /\ type_str[1] \in DOMAIN TypeMapping
    THEN <<TypeMapping[type_str[1]]>>
    ELSE type_str

\* mapping.get(type_str, "GENERAL")
mapping_get(type_str) ==
    IF Len(type_str) = 1 /\ type_str[1] \in DOMAIN TypeMapping
    THEN <<TypeMapping[type_str[1]]>>
    ELSE <<"GENERAL">>

\* _normalize_item: the returned dict has no id and no menus
_normalize_item(raw) ==
    [id    |-> 0,
     time  |-> str(get_default(raw.time, <<"0", "0", ":", "0", "0">>)),
     type  |-> mapping_get(upper(str_word(get_default(raw.type, <<"GENERAL">>)))),
     task  |-> or_empty(get_default(raw.task, <<>>)),
     menus |-> <<>>]

\* the slot returned when the answer is not JSON (lines 164-174):
\* "일정 변환 오류. 코디네이터에게 다시 요청하기"
GenerateFallbackSlot ==
    [id |-> 0, time |-> <<"0", "9", ":", "0", "0">>, type |-> <<"GENERAL">>,
     task |-> <<"il", "jeong", " ", "byeon", "hwan", " ", "o", "ryu">>, menus |-> <<>>]

\* generate_schedule_from_text; answer.kind: "empty_text" (nothing typed),
\* "api_raises" (the client call raises), "bad_json", "json" (answer.raw is
\* the list of the dicts of the answer)
generate_schedule_from_text(answer) ==
    CASE answer.kind = "empty_text" -> [raised |-> FALSE, schedule |-> <<>>]
      [] answer.kind = "api_raises" -> [raised |-> TRUE, schedule |-> <<>>]
      [] answer.kind = "bad_json"   -> [raised |-> FALSE, schedule |-> <<GenerateFallbackSlot>>]
      [] OTHER ->
            LET items == [i \in 1..Len(answer.raw) |-> _normalize_item(answer.raw[i])]
            IN  [raised |-> FALSE, schedule |-> load_sorted(items, Len(items))]

\* _ensure_item_ids on the first n slots; uuid: the ids handed out so far
RECURSIVE ensure_ids_upto(_, _, _)
ensure_ids_upto(schedule, uuid, n) ==
    IF n = 0 THEN [schedule |-> schedule, uuid |-> uuid]
    ELSE LET r == ensure_ids_upto(schedule, uuid, n - 1)
         IN  IF r.schedule[n].id = 0
             THEN [schedule |-> [r.schedule EXCEPT ![n].id = r.uuid + 1],
                   uuid |-> r.uuid + 1]
             ELSE r

\* mutant: every slot gets a fresh id
mutant_ensure_item_ids(schedule, uuid) ==
    [schedule |-> [i \in 1..Len(schedule) |-> [schedule[i] EXCEPT !.id = uuid + i]],
     uuid |-> uuid + Len(schedule)]

_ensure_item_ids(schedule, uuid) == ensure_ids_upto(schedule, uuid, Len(schedule))

\* _find_index_by_id, counted from 1; 0 stands for -1
_find_index_by_id(schedule, item_id) ==
    IF \E i \in 1..Len(schedule) : schedule[i].id = item_id
    THEN CHOOSE i \in 1..Len(schedule) :
             schedule[i].id = item_id /\ \A j \in 1..(i - 1) : schedule[j].id # item_id
    ELSE 0

\* suggest_recipes_from_text raises
ServiceRaises == << <<"<raise>">> >>

\* _auto_attach_cooking_candidates when the service may raise: the loop
\* stops at the first slot whose call raises, the slots before it are done
attach_outcome(schedule, suggested) ==
    LET R == { i \in 1..Len(schedule) :
                  calls_service(schedule[i]) /\ suggested[i] = ServiceRaises }
    IN  IF R = {}
        THEN [raised |-> FALSE,
              schedule |-> _auto_attach_cooking_candidates(schedule, suggested)]
        ELSE LET k == CHOOSE i \in R : \A j \in R : i <= j
             IN  [raised |-> TRUE,
                  schedule |-> [i \in 1..Len(schedule) |->
                                   IF i < k THEN attach_item(schedule[i], suggested[i])
                                   ELSE schedule[i]]]

\* type_options (line 301)
type_options ==
    << <<"TIMELINE">>, <<"ROUTINE">>, <<"MEAL">>, <<"COOKING">>, <<"HEALTH">>,
       <<"CLOTHING">>, <<"HOBBY">>, <<"GENERAL">> >>

\* new_time.strip() or "00:00"
time_or_default(new_time) ==
    IF strip(new_time) = <<>> THEN <<"0", "0", ":", "0", "0">> ELSE strip(new_time)

\* the record of a page run: which handler ran, how it ended, and how many
\* runs the session has had
CoLast(op, outcome) == [op |-> op, outcome |-> outcome, runs |-> co_last.runs + 1]

\* the run of the page after a handler: lines 242-244
CoPageRun(schedule, uuid, op) ==
    LET e == _ensure_item_ids(schedule, uuid)
    IN  /\ co_schedule' = e.schedule
        /\ co_uuid' = e.uuid
        /\ co_last' = CoLast(op, "ok")

\* the button "일정 자동 만들기" (lines 231-239), then lines 242-244
regenerate(answer, suggested) ==
    LET g == generate_schedule_from_text(answer)
        e == _ensure_item_ids(g.schedule, co_uuid)
        a == attach_outcome(_apply_type_guardrails(e.schedule), suggested)
    IN  IF g.raised
        THEN /\ co_last' = CoLast("regenerate", "generator_raised")
             /\ UNCHANGED <<co_schedule, co_uuid>>
        ELSE IF a.raised
        THEN /\ co_last' = CoLast("regenerate", "extractor_raised")
             /\ co_uuid' = e.uuid
             /\ UNCHANGED co_schedule
        ELSE CoPageRun(a.schedule, e.uuid, "regenerate")

\* the button "수정 저장" of the slot with id item_id (lines 318-328): the
\* session's list is changed in place
edit_save(item_id, new_time, new_type, new_task, suggested) ==
    LET k == _find_index_by_id(co_schedule, item_id)
        edited == [co_schedule EXCEPT ![k].time = time_or_default(new_time),
                                      ![k].task = strip(new_task),
                                      ![k].type = new_type]
        a == attach_outcome(_apply_type_guardrails(edited), suggested)
    IN  IF a.raised
        THEN /\ co_schedule' = a.schedule
             /\ co_last' = CoLast("edit_save", "extractor_raised")
             /\ UNCHANGED co_uuid
        ELSE CoPageRun(a.schedule, co_uuid, "edit_save")

swap(s, i, j) == [s EXCEPT ![i] = s[j], ![j] = s[i]]

\* "위로 이동" (lines 331-336)
move_up(item_id) ==
    LET k == _find_index_by_id(co_schedule, item_id)
    IN  CoPageRun(IF k > 1 THEN swap(co_schedule, k - 1, k) ELSE co_schedule,
                  co_uuid, "move_up")

\* "아래로 이동" (lines 339-344)
move_down(item_id) ==
    LET k == _find_index_by_id(co_schedule, item_id)
    IN  CoPageRun(IF k < Len(co_schedule) THEN swap(co_schedule, k, k + 1) ELSE co_schedule,
                  co_uuid, "move_down")

\* "삭제" (lines 347-352): s.pop(orig_idx)
delete(item_id) ==
    LET k == _find_index_by_id(co_schedule, item_id)
    IN  CoPageRun(SubSeq(co_schedule, 1, k - 1) \o SubSeq(co_schedule, k + 1, Len(co_schedule)),
                  co_uuid, "delete")

(***************************************************************************)
(* SpecCoord: a coordinator session under every sequence of its buttons.   *)
(***************************************************************************)
\* "12:00", "18:00", "19:00", "07:00", "10:00"
CoTime1200 == <<"1", "2", ":", "0", "0">>
CoTime1800 == <<"1", "8", ":", "0", "0">>
CoTime1900 == <<"1", "9", ":", "0", "0">>
CoTime0700 == <<"0", "7", ":", "0", "0">>
CoTime1000 == <<"1", "0", ":", "0", "0">>

\* dicts of the generator's answer: a lower-case type, a known type, a type
\* outside the mapping, no type, a null type with no time, an alias of the
\* mapping with a null task
CoRawLunch == [time |-> CoTime1200, type |-> <<"meal">>, task |-> NzLunch]
CoRawRamen == [time |-> CoTime1800, type |-> <<"COOKING">>, task |-> NzBoilRamen]
CoRawWalk == [time |-> CoTime1900, type |-> <<"Leisure">>, task |-> NzWalk]
CoRawDrama == [time |-> CoTime0700, type |-> Missing, task |-> NzDrama]
CoRawShower == [time |-> Missing, type |-> None, task |-> NzShower]
CoRawMorning == [time |-> CoTime1000, type |-> <<"MORNING">>, task |-> None]

\* what the generator can answer: nothing typed, an exception, a text that
\* is not JSON, or a list of dicts
CoAnswers ==
    { [kind |-> k, raw |-> <<>>] : k \in {"empty_text", "api_raises", "bad_json"} }
    \cup { [kind |-> "json", raw |-> raw] :
               raw \in { <<>>,
                         <<CoRawRamen>>,
                         <<CoRawLunch, CoRawDrama>>,
                         <<CoRawShower, CoRawMorning>>,
                         <<CoRawWalk, CoRawRamen>> } }

\* the value the type selectbox shows for a slot (lines 302-306)
selectbox_default(current_type) ==
    IF \E i \in 1..Len(type_options) : type_options[i] = current_type
    THEN current_type ELSE <<"GENERAL">>

\* what the coordinator can enter for a slot before "수정 저장": another
\* type, another task ("라면 끓이기"), or an emptied time field
CoEdits(slot) ==
    { [time |-> slot.time, type |-> type_options[i], task |-> slot.task] :
          i \in 1..Len(type_options) }
    \cup { [time |-> slot.time, type |-> selectbox_default(slot.type), task |-> NzBoilRamen],
           [time |-> <<>>, type |-> selectbox_default(slot.type), task |-> slot.task] }

\* what the name-extraction service can do for the slots of a list: an
\* answer, or an exception, for each slot it is called for
CoSuggestions(schedule) ==
    { s \in [1..Len(schedule) -> SuggestSamples \cup {ServiceRaises}] :
          \A i \in 1..Len(schedule) : ~calls_service(schedule[i]) => s[i] = <<>> }

CoIds == { co_schedule[i].id : i \in 1..Len(co_schedule) }

CoInit ==
    /\ CoIdle
    /\ RtIdle
    /\ UpIdle
    /\ NzIdle
    /\ PtIdle
    /\ FsIdle

CoFrame ==
    /\ UNCHANGED rtVars
    /\ UNCHANGED upVars
    /\ UNCHANGED nzVars
    /\ UNCHANGED ptVars
    /\ UNCHANGED fsVars

CoRegenerate ==
    \E answer \in CoAnswers :
        LET g == generate_schedule_from_text(answer)
            given == _apply_type_guardrails(_ensure_item_ids(g.schedule, co_uuid).schedule)
        IN  /\ co_last.runs < MaxRuns
            /\ co_uuid + Len(g.schedule) <= MaxUuid
            /\ \E suggested \in CoSuggestions(given) : regenerate(answer, suggested)
            /\ CoFrame

CoEditSave ==
    /\ co_last.runs < MaxRuns
    /\ \E item_id \in CoIds :
           LET k == _find_index_by_id(co_schedule, item_id)
           IN  \E new \in CoEdits(co_schedule[k]) :
                   LET given == _apply_type_guardrails(
                                    [co_schedule EXCEPT ![k].time = time_or_default(new.time),
                                                        ![k].task = strip(new.task),
                                                        ![k].type = new.type])
                   IN  /\ \E suggested \in CoSuggestions(given) :
                              edit_save(item_id, new.time, new.type, new.task, suggested)
                       /\ CoFrame

CoMoveUp ==
    /\ co_last.runs < MaxRuns
    /\ \E item_id \in CoIds : move_up(item_id)
    /\ CoFrame

CoMoveDown ==
    /\ co_last.runs < MaxRuns
    /\ \E item_id \in CoIds : move_down(item_id)
    /\ CoFrame

CoDelete ==
    /\ co_last.runs < MaxRuns
    /\ \E item_id \in CoIds : delete(item_id)
    /\ CoFrame

\* a run of the page without a button (lines 242-244)
CoRerun ==
    /\ co_last.runs < MaxRuns
    /\ CoPageRun(co_schedule, co_uuid, "rerun")
    /\ CoFrame

CoNext == CoRegenerate \/ CoEditSave \/ CoMoveUp \/ CoMoveDown \/ CoDelete \/ CoRerun

SpecCoord == CoInit /\ [][CoNext]_vars

\* the candidates of a slot are built from these names
NzMenuNames(item) == [k \in 1..Len(item.menus) |-> item.menus[k].name]

\* the slots the attachment pass was given without menus and with a task
NzBareSlots(types) ==
    { i \in 1..Len(NzLastGiven) :
          /\ NzLastGiven[i].type \in types
          /\ NzLastGiven[i].menus = <<>>
          /\ or_empty(NzLastGiven[i].task) # <<>> }

\* what the pass must leave on such a slot: at least one candidate, each
\* with a non-empty name, the default image and no video, no name twice;
\* without an answer of the service "라면 또는 카레 중 하나 먹기" gives 라면 and
\* 카레, "라면 끓이기" (no separator, no suffix) gives itself, and a blank
\* task is its own sole candidate
NzMenusDerived(i) ==
    LET names == NzMenuNames(nz_schedule[i])
        task  == NzLastGiven[i].task
    IN  /\ Len(names) >= 1
        /\ \A k \in 1..Len(names) :
               /\ names[k] # <<>>
               /\ nz_schedule[i].menus[k].image = "assets/images/default_food.png"
               /\ nz_schedule[i].menus[k].video_url = <<>>
        /\ \A k, l \in 1..Len(names) : k # l => names[k] # names[l]
        /\ task = NzRamenOrCurry =>
               names \in { << <<"ra", "myeon">> >>,
                           << <<"ra", "myeon">>, <<"ka", "re">> >> }
        /\ task = NzBoilRamen =>
               names \in { << <<"ra", "myeon">> >>, <<NzBoilRamen>> }
        /\ strip(task) = <<>> => names = <<task>>

ClothingKeywords == { <<"ot">>, <<"gal", "a", "ip">>, <<"ip", "gi">> }

\* C20: a slot whose task contains a hygiene keyword and no clothing keyword
\* leaves the guardrail pass as ROUTINE, whatever its category was before
\* and whatever leisure, meal or cooking keywords its task also contains.
C20_HygieneIsRoutine ==
    NzLastOp = "guardrails" =>
        \A i \in 1..Len(NzLastGiven) :
            LET task == strip(or_empty(NzLastGiven[i].task))
            IN  (AnyIn(routine_kw, task) /\ ~AnyIn(ClothingKeywords, task)) =>
                    /\ nz_schedule[i].type = <<"ROUTINE">>
                    /\ nz_schedule[i].task = NzLastGiven[i].task

\* the pass retagged "샤워 후 저녁 요리 영상 보기", which came in as HOBBY and
\* holds a meal, a cooking and two leisure keywords besides the hygiene one
C20_Witness ==
    /\ NzLastOp = "guardrails"
    /\ \E i \in 1..Len(NzLastGiven) :
           /\ NzLastGiven[i].task = NzShowerDinnerVideo
           /\ NzLastGiven[i].type = <<"HOBBY">>
           /\ AnyIn(hobby_kw, NzShowerDinnerVideo)
           /\ AnyIn(meal_kw, NzShowerDinnerVideo)
           /\ AnyIn(cooking_intent_kw, NzShowerDinnerVideo)
           /\ nz_schedule[i].type = <<"ROUTINE">>

\* C23: a slot whose task contains a clothing keyword ("옷", "갈아입",
\* "입기") leaves the guardrail pass as CLOTHING, before any other rule is
\* tried.
C23_ClothingFirst ==
    NzLastOp = "guardrails" =>
        \A i \in 1..Len(NzLastGiven) :
            AnyIn(ClothingKeywords, strip(or_empty(NzLastGiven[i].task))) =>
                nz_schedule[i].type = <<"CLOTHING">>

\* C24: a slot whose task holds no clothing and no hygiene keyword leaves
\* the guardrail pass as HEALTH when the task holds an exercise keyword
\* ("운동", "스트레칭", "재활"), also when it holds leisure keywords, and as
\* HOBBY when it holds a leisure keyword and no exercise keyword.
C24_ExerciseBeforeLeisure ==
    NzLastOp = "guardrails" =>
        \A i \in 1..Len(NzLastGiven) :
            LET task == strip(or_empty(NzLastGiven[i].task))
            IN  (~AnyIn(ClothingKeywords, task) /\ ~AnyIn(routine_kw, task)) =>
                    /\ AnyIn(hobby_except_kw, task) =>
                           nz_schedule[i].type = <<"HEALTH">>
                    /\ (AnyIn(hobby_kw, task) /\ ~AnyIn(hobby_except_kw, task)) =>
                           nz_schedule[i].type = <<"HOBBY">>

\* exercise keywords: the words of line 106 and "산책"
ExerciseKeywords == hobby_except_kw \cup { <<"san", "chaek">> }

\* the slots of the list given to the last pass whose task holds a meal
\* keyword and no clothing, hygiene, exercise or leisure keyword
NzMealOnly ==
    { i \in 1..Len(NzLastGiven) :
          LET task == strip(or_empty(NzLastGiven[i].task))
          IN  /\ AnyIn(meal_kw, task)
              /\ ~AnyIn(ClothingKeywords, task)
              /\ ~AnyIn(routine_kw, task)
              /\ ~AnyIn(ExerciseKeywords, task)
              /\ ~AnyIn(hobby_kw, task) }

\* C25: a slot whose task holds a meal keyword and no clothing, hygiene,
\* exercise or leisure keyword leaves the guardrail pass as COOKING when the
\* task holds a cooking-intent keyword and as MEAL when it does not,
\* whatever its category was before.
C25_MealOrCooking ==
    NzLastOp = "guardrails" =>
        \A i \in NzMealOnly :
            nz_schedule[i].type =
                IF AnyIn(cooking_intent_kw, strip(or_empty(NzLastGiven[i].task)))
                THEN <<"COOKING">> ELSE <<"MEAL">>

\* C25 witness: "점심 먹기" came in as COOKING and left as MEAL, and "카레
\* 만들어 먹기" came in as GENERAL and left as COOKING.
C25_Witness ==
    /\ NzLastOp = "guardrails"
    /\ \E i, j \in NzMealOnly :
           /\ NzLastGiven[i].task = NzLunch
           /\ NzLastGiven[i].type = <<"COOKING">>
           /\ nz_schedule[i].type = <<"MEAL">>
           /\ NzLastGiven[j].task = NzMakeCurry
           /\ NzLastGiven[j].type = <<"GENERAL">>
           /\ nz_schedule[j].type = <<"COOKING">>

(***************************************************************************)
(* Claims about the coordinator session, checked under SpecCoord.          *)
(***************************************************************************)
\* C11: the normalisation pipeline (ids, guardrail, menu attachment) never
\* raises: when the name-extraction service raises or returns nothing, the
\* menus are derived by the rule-based split and then from the raw task
\* text, and the handler still ends with a slot list.
C11_PipelineNeverRaises ==
    co_last.op \in {"regenerate", "edit_save"} => co_last.outcome # "extractor_raised"

\* the categories the system knows
KnownCategories ==
    { <<"MORNING_BRIEFING">>, <<"NIGHT_WRAPUP">>, <<"TIMELINE">>, <<"ROUTINE">>,
      <<"MEAL">>, <<"COOKING">>, <<"HEALTH">>, <<"CLOTHING">>, <<"HOBBY">>,
      <<"GENERAL">> }

\* a type value of the generator that the mapping does not know, or no type
CoUnknownType(raw) ==
    \/ raw.type = Missing
    \/ raw.type = None
    \/ Len(raw.type) # 1
    \/ upper(raw.type)[1] \notin DOMAIN TypeMapping

\* C13: after generation plus normalisation and after any later edit-save,
\* every slot's category is one of the known categories; a missing or
\* unrecognised category of the generator becomes GENERAL in _normalize_item.
C13_TypeInClosedSet ==
    /\ \A i \in 1..Len(co_schedule) : co_schedule[i].type \in KnownCategories
    /\ \A a \in CoAnswers :
           \A i \in 1..Len(a.raw) :
               CoUnknownType(a.raw[i]) => _normalize_item(a.raw[i]).type = <<"GENERAL">>

\* an edit-save ended with one slot set to CLOTHING by the coordinator and
\* another one generated without a type and retagged by the guardrail
C13_Witness ==
    /\ co_last.op = "edit_save"
    /\ co_last.outcome = "ok"
    /\ \E i \in 1..Len(co_schedule) : co_schedule[i].type = <<"CLOTHING">>
    /\ \E i \in 1..Len(co_schedule) :
           co_schedule[i].task = NzShower /\ co_schedule[i].type = <<"ROUTINE">>

\* the ids of a slot list, by position
CoIdsOf(schedule) == [i \in 1..Len(schedule) |-> schedule[i].id]

\* s without its k-th element
CoWithout(s, k) == SubSeq(s, 1, k - 1) \o SubSeq(s, k + 1, Len(s))

\* what a page run may do to the slots and their ids
C14Step ==
    /\ \A i \in 1..Len(co_schedule') : co_schedule'[i].id # 0
    /\ \A i, j \in 1..Len(co_schedule') :
           i # j => co_schedule'[i].id # co_schedule'[j].id
    /\ _ensure_item_ids(co_schedule', co_uuid') = [schedule |-> co_schedule', uuid |-> co_uuid']
    /\ co_last'.op \in {"edit_save", "rerun"} => CoIdsOf(co_schedule') = CoIdsOf(co_schedule)
    /\ co_last'.op \in {"move_up", "move_down"} =>
           \/ co_schedule' = co_schedule
           \/ \E k \in 1..(Len(co_schedule) - 1) : co_schedule' = swap(co_schedule, k, k + 1)
    /\ co_last'.op = "delete" =>
           \E k \in 1..Len(co_schedule) : co_schedule' = CoWithout(co_schedule, k)
    /\ co_last'.op = "regenerate" =>
           \/ co_schedule' = co_schedule
           \/ \A i \in 1..Len(co_schedule') : co_schedule'[i].id > co_uuid

\* C14: after any sequence of coordinator operations every slot has a
\* non-empty id and the ids are pairwise distinct; a slot that stays in the
\* list keeps its id through edit-save, moves, deletes of other slots and
\* page re-runs, a regenerated list gets fresh ids, and _ensure_item_ids
\* changes nothing on a list whose slots all have ids.
C14_IdsStable == [][C14Step]_vars

\* two slots were swapped by "move down" and kept their ids
C14_Witness ==
    /\ co_last.op = "move_down"
    /\ Len(co_schedule) = 2
    /\ co_schedule[1].id = 2
    /\ co_schedule[2].id = 1

\* C26: no slot of the session is COOKING unless its task holds a
\* cooking-intent keyword, after any sequence of the page's buttons; and the
\* guardrail pass gives no slot of the session the category COOKING without
\* such a keyword, whatever category the slot is given to the pass with.
C26_CookingNeedsIntent ==
    \A i \in 1..Len(co_schedule) :
        /\ co_schedule[i].type = <<"COOKING">> =>
               AnyIn(cooking_intent_kw, co_schedule[i].task)
        /\ \A k \in 1..Len(type_options) :
               guardrail_item([co_schedule[i] EXCEPT !.type = type_options[k]]).type
                       = <<"COOKING">>
                   => AnyIn(cooking_intent_kw, strip(co_schedule[i].task))

\* C26 witness: the generator tagged "점심 먹기" as COOKING (its type "meal"
\* is mapped to COOKING) and the session holds the slot as MEAL.
C26_Witness ==
    /\ co_last.op = "regenerate"
    /\ co_last.outcome = "ok"
    /\ _normalize_item(CoRawLunch).type = <<"COOKING">>
    /\ \E i \in 1..Len(co_schedule) :
           /\ co_schedule[i].task = NzLunch
           /\ ~AnyIn(cooking_intent_kw, NzLunch)
           /\ co_schedule[i].type = <<"MEAL">>

\* the slots whose time a step changed
CoTimeChanged ==
    { k \in 1..Len(co_schedule) : co_schedule'[k].time # co_schedule[k].time }

\* an edit-save that changed the time of a slot, the task and the type
\* selector being left as the form showed them
C30Step ==
    (co_last'.op = "edit_save" /\ co_last'.outcome = "ok" /\ CoTimeChanged # {}) =>
        \A k \in CoTimeChanged :
            /\ co_schedule'[k].type = co_schedule[k].type
            /\ co_schedule'[k].task = co_schedule[k].task
            /\ co_schedule'[k].id = co_schedule[k].id
            /\ \A j \in 1..Len(co_schedule) : j # k => co_schedule'[j] = co_schedule[j]

\* C30: an edit-save that changes only the time of a slot leaves the slot's
\* category, task and id and every other slot of the session as they were,
\* whatever category the slot got at generation.
C30_TimeEditKeepsCategory == [][C30Step]_vars

C19_PastIffBeforeNow ==
    RtAnnotated =>
        \A i \in 1..RtLen :
            /\ rt_annotated[i].status \in {"active", "past", "upcoming"}
            /\ rt_annotated[i].status = "active"
                   <=> i = find_active_item(rt_schedule, rt_now).active
            /\ i # find_active_item(rt_schedule, rt_now).active =>
                   /\ rt_annotated[i].status = "past" <=> RtT(i) * 60 < rt_now
                   /\ rt_annotated[i].status = "upcoming" <=> RtT(i) * 60 >= rt_now

\* two slots start exactly now: one is active, the other one is upcoming
C19_Witness ==
    /\ RtAnnotated
    /\ \E i, j \in 1..RtLen :
           /\ i # j
           /\ RtT(i) * 60 = rt_now
           /\ RtT(j) * 60 = rt_now
           /\ rt_annotated[i].status = "active"
           /\ rt_annotated[j].status = "upcoming"

RtActive == find_active_item(rt_schedule, rt_now).active
RtNextItem == find_active_item(rt_schedule, rt_now).next_item

\* C29 as stated: every slot marked upcoming starts strictly after now,
\* every slot marked past starts strictly before now, and the slot
\* find_active_item returns as next is marked upcoming.
C29_UpcomingStrictlyAfter ==
    RtAnnotated =>
        /\ \A i \in 1..RtLen :
               /\ rt_annotated[i].status = "upcoming" => RtT(i) * 60 > rt_now
               /\ rt_annotated[i].status = "past" => RtT(i) * 60 < rt_now
        /\ RtNextItem # 0 => rt_annotated[RtNextItem].status = "upcoming"

\* C29, amended: a slot marked upcoming starts at now or later, and it
\* starts exactly at now only when the active slot starts at now as well;
\* every slot marked past starts strictly before now, and the slot
\* find_active_item returns as next starts strictly after now and is marked
\* upcoming.
C29_UpcomingNotBefore ==
    RtAnnotated =>
        /\ \A i \in 1..RtLen :
               /\ rt_annotated[i].status = "upcoming" =>
                      /\ RtT(i) * 60 >= rt_now
                      /\ RtT(i) * 60 = rt_now =>
                             RtActive # 0 /\ RtT(RtActive) * 60 = rt_now
               /\ rt_annotated[i].status = "past" => RtT(i) * 60 < rt_now
        /\ RtNextItem # 0 =>
               /\ rt_annotated[RtNextItem].status = "upcoming"
               /\ RtT(RtNextItem) * 60 > rt_now

\* C29 witness: of two slots that start exactly now one is marked upcoming,
\* and the next slot, which starts later, is marked upcoming as well
C29_Witness ==
    /\ RtAnnotated
    /\ RtLen = 3
    /\ RtNextItem # 0
    /\ RtT(RtNextItem) * 60 > rt_now
    /\ rt_annotated[RtNextItem].status = "upcoming"
    /\ \E i \in 1..RtLen :
           /\ i # RtNextItem
           /\ RtT(i) * 60 = rt_now
           /\ rt_annotated[i].status = "upcoming"

(***************************************************************************)
(* Claims about the follow-along page without a schedule, under SpecUser.  *)
(***************************************************************************)
\* C15: a missing document and a document with no slots end the tick in two
\* different states ("no file" with st.error and st.stop, "empty" with
\* st.warning and return), neither of them an exception; in both nothing is
\* narrated and the greeting flag, the narrated slot key and the pre-notice
\* key keep their values.
C15_MissingAndEmptyAreQuiet ==
    /\ tick.outcome = "no_file" <=> (tick.outcome # "idle" /\ ~file.exists)
    /\ tick.outcome = "empty" <=>
           (tick.outcome # "idle" /\ file.exists /\ file.schedule = <<>>)
    /\ tick.outcome \in {"no_file", "empty"} =>
           /\ tick.requested = <<>>
           /\ tick.played = <<>>
           /\ NarrationState(ss) = tick.pre

\* a tick on a document whose slots were all removed, in a session that had
\* already greeted
C15_Witness ==
    /\ tick.outcome = "empty"
    /\ tick.pre.greeting_tts_done
    /\ NarrationState(ss).greeting_tts_done

(***************************************************************************)
(* Further claims about the narration logic of the follow-along page.      *)
(***************************************************************************)
\* the active slot with a field outside the key edited
UpActiveOtherFieldEdited ==
    [time |-> UpLoaded.schedule[UpFound.active].time,
     type |-> UpLoaded.schedule[UpFound.active].type,
     task |-> UpLoaded.schedule[UpFound.active].task,
     guide_script |-> << <<"edited">> >>]

\* C22: in a run after the greeting that synthesis does not abort, an active
\* slot whose key (date, time, category, task) differs from the last
\* narrated key gets exactly one slot narration, of that key, and the key is
\* stored; when the key equals the last narrated key no slot narration is
\* produced, and an edit of a field outside the key leaves the key as it is.
C22_KeyChangeNarratesOnce ==
    (tick.outcome = "ran" /\ tick.pre.greeting_tts_done) =>
        /\ SlotChangeDue =>
              /\ tick.requested = <<Event("slot", UpActiveKey)>>
              /\ NarrationState(ss).full_narrated_slot_key = UpActiveKey
        /\ ~SlotChangeDue => KeysOf(tick.requested, "slot") = <<>>
        /\ UpHasActive =>
              _make_slot_key(file.date, UpActiveOtherFieldEdited) = UpActiveKey

\* C22 witness: the category of the narrated slot was edited from GENERAL to
\* HEALTH, and the next run narrated the slot again and stored the new key.
C22_Witness ==
    /\ tick.outcome = "ran"
    /\ tick.pre.greeting_tts_done
    /\ UpHasActive
    /\ UpLoaded.schedule[UpFound.active].type = <<"HEALTH">>
    /\ tick.pre.full_narrated_slot_key =
           _make_slot_key(file.date,
                          [UpLoaded.schedule[UpFound.active] EXCEPT !.type = <<"GENERAL">>])
    /\ tick.played = <<Event("slot", UpActiveKey)>>
    /\ NarrationState(ss).full_narrated_slot_key = UpActiveKey

\* C27: while the document stays as saved and the clock moves forward, a
\* slot that is active in a completed run after the greeting has had its
\* slot narration, and no slot has it twice: the narration comes in the first
\* such run and not again later, also for a slot that had a pre-notice or
\* was active when the greeting was given.
C27_SlotNarratedOnce ==
    /\ NoDuplicates(hist.slot_done)
    /\ (tick.outcome = "ran" /\ tick.pre.greeting_tts_done /\ UpHasActive) =>
           \E i \in 1..Len(hist.slot_done) : hist.slot_done[i] = UpActiveKey

\* C27 witness: the active slot had a pre-notice and then its narration, and
\* the last run, with the slot still active, requested nothing for it.
C27_Witness ==
    /\ tick.outcome = "ran"
    /\ tick.pre.greeting_tts_done
    /\ UpHasActive
    /\ \E i \in 1..Len(hist.pre_played) : hist.pre_played[i] = UpActiveKey
    /\ \E i \in 1..Len(hist.slot_done) : hist.slot_done[i] = UpActiveKey
    /\ tick.pre.full_narrated_slot_key = UpActiveKey
    /\ KeysOf(tick.requested, "slot") = <<>>

\* date strings strptime rejects: no date in the file, and "2026-11-31"
UpBadDates == { <<>>, <<"2", "0", "2", "6", "-", "1", "1", "-", "3", "1">> }

\* C28: a run is gated exactly when the document's date is not today's or
\* the audio is not unlocked, and a date that does not parse gates it too; a
\* gated run produces no narration and leaves the greeting flag, the last
\* narrated key and the last pre-notice key as they were; the greeting is
\* given in the first run that is not gated.
C28_GatedRunIsQuiet ==
    /\ tick.outcome = "gated" =>
           /\ tick.requested = <<>> /\ tick.played = <<>>
           /\ NarrationState(ss) = tick.pre
    /\ tick.outcome \in {"gated", "ran", "raised"} =>
           /\ tick.outcome = "gated" <=>
                  \/ ~strptime_ymd(file.date).ok
                  \/ strptime_ymd(file.date).date # Today
                  \/ ~ss_get(ss, "audio_unlocked", FALSE)
           /\ \A bad \in UpBadDates :
                  LET r == _auto_tts_logic(ss, Today, clock.s, bad, UpLoaded.schedule,
                                           UpFound, "audio")
                  IN  r.gated /\ r.ss = ss /\ r.requested = <<>> /\ r.played = <<>>
    /\ (TickEvaluated /\ ~tick.pre.greeting_tts_done) =>
           Kinds(tick.requested) = <<"greeting">>

\* C28 witness: the session had greeted and narrated a slot; the next day
\* the run on yesterday's document was gated and kept the flag and the key.
C28_Witness ==
    /\ tick.outcome = "gated"
    /\ ss_get(ss, "audio_unlocked", FALSE)
    /\ strptime_ymd(file.date).date # Today
    /\ tick.pre.greeting_tts_done
    /\ tick.pre.full_narrated_slot_key # <<>>
    /\ NarrationState(ss) = tick.pre

(***************************************************************************)
(* parse_hhmm_to_time on its own: one call on one argument.                *)
(***************************************************************************)
MaxTimeLen == 5        \* characters of a time string

PtAlphabet == {"0", "2", "5", "9", ":", "a", " "}

\* arguments outside the alphabet: null, signs, a third field
PtOddInputs ==
    { None,
      <<"-", "2", ":", "0", "5">>,
      <<"+", "2", ":", "0", "5">>,
      <<"1", "2", ":", "3", "4">>,
      <<"2", "3", ":", "5", "9">>,
      <<"2", "4", ":", "0", "0">>,
      <<"0", "0", ":", "6", "0">> }

PtInputs ==
    UNION { [1..n -> PtAlphabet] : n \in 0..MaxTimeLen } \cup PtOddInputs

PtInit ==
    /\ pt_input \in PtInputs
    /\ pt_result = [called |-> FALSE, raised |-> FALSE, val |-> 0]
    /\ RtIdle
    /\ UpIdle
    /\ NzIdle
    /\ CoIdle
    /\ FsIdle

PtParse ==
    /\ ~pt_result.called
    /\ pt_result' = [called |-> TRUE,
                     raised |-> parse_call(pt_input).raised,
                     val |-> parse_call(pt_input).val]
    /\ UNCHANGED pt_input
    /\ UNCHANGED rtVars
    /\ UNCHANGED upVars
    /\ UNCHANGED nzVars
    /\ UNCHANGED coVars
    /\ UNCHANGED fsVars

PtNext == PtParse

SpecParse == PtInit /\ [][PtNext]_vars

\* "HH:MM": two digits, a colon, two digits, hour 0-23 and minute 0-59
PtAllDigits(f) == f # <<>> /\ \A i \in 1..Len(f) : IsDigit(f[i])

PtWellFormed(s) ==
    /\ s # None
    /\ Len(s) = 5
    /\ s[3] = ":"
    /\ PtAllDigits(SubSeq(s, 1, 2))
    /\ PtAllDigits(SubSeq(s, 4, 5))
    /\ 10 * DigitVal(s[1]) + DigitVal(s[2]) <= 23
    /\ 10 * DigitVal(s[4]) + DigitVal(s[5]) <= 59

PtHour(s) == 10 * DigitVal(s[1]) + DigitVal(s[2])

PtMinute(s) == 10 * DigitVal(s[4]) + DigitVal(s[5])

\* the colons of a string
PtColons(s) == { i \in 1..Len(s) : s[i] = ":" }

\* a field that is not a number: empty, blank, or with a character that is
\* neither a digit, a blank nor a sign
PtNonNumeric(f) ==
    \/ \A i \in 1..Len(f) : IsSpace(f[i])
    \/ \E i \in 1..Len(f) : ~IsDigit(f[i]) /\ ~IsSpace(f[i]) /\ f[i] \notin {"+", "-"}

\* the kinds of malformed input: null, the empty string, another number of
\* fields than two, a field that is not a number, numbers out of range
PtMalformed(s) ==
    \/ s = None
    \/ s = <<>>
    \/ Cardinality(PtColons(s)) # 1
    \/ LET k == CHOOSE i \in PtColons(s) : TRUE
           hh == SubSeq(s, 1, k - 1)
           mm == SubSeq(s, k + 1, Len(s))
       IN  \/ PtNonNumeric(hh)
           \/ PtNonNumeric(mm)
           \/ PtAllDigits(hh) /\ PtAllDigits(mm) /\ (DecVal(hh) > 23 \/ DecVal(mm) > 59)

\* C12: parse_hhmm_to_time is total: a well-formed "HH:MM" string gives
\* exactly that hour and minute, every malformed input (null, empty,
\* another number of fields, non-numeric text, out-of-range values) gives
\* 00:00, and no call raises.
C12_ParseIsTotal ==
    pt_result.called =>
        /\ ~pt_result.raised
        /\ PtWellFormed(pt_input) =>
               pt_result.val = 60 * PtHour(pt_input) + PtMinute(pt_input)
        /\ PtMalformed(pt_input) => pt_result.val = 0

\* the out-of-range string "25:99" was parsed and gave 00:00
C12_Witness ==
    /\ pt_result.called
    /\ pt_input = <<"2", "5", ":", "9", "9">>
    /\ PtMalformed(pt_input)
    /\ pt_result.val = 0

(***************************************************************************)
(* The schedule file: _save_schedule_to_file of the coordinator page and   *)
(* _load_schedule of the follow-along page, each in its own process.       *)
(***************************************************************************)
MaxFileSlots == 2      \* slots of a saved schedule

\* slots of the session schedule: "08:04", "8:02" and "08:00"
FsSlots ==
    { [id |-> 1, time |-> UpTime0804, type |-> <<"GENERAL">>, task |-> UpTask],
      [id |-> 2, time |-> UpTime802,  type |-> <<"HEALTH">>,  task |-> UpTask],
      [id |-> 3, time |-> UpTime0800, type |-> <<"GENERAL">>, task |-> UpTask] }

\* the session schedules that can be saved: slots with distinct ids
FsSchedules ==
    { sch \in UNION { [1..n -> FsSlots] : n \in 0..MaxFileSlots } :
          \A i, j \in 1..Len(sch) : i # j => sch[i].id # sch[j].id }

\* date.today() of the coordinator's process
FsDays == { [y |-> 2026, m |-> 11, d |-> 2], [y |-> 2026, m |-> 11, d |-> 3] }

\* a JSON string: the text between quotes
json_str(s) == <<"\"">> \o s \o <<"\"">>

json_is_str(t) == Len(t) >= 2 /\ t[1] = "\"" /\ t[Len(t)] = "\""

json_unstr(t) == SubSeq(t, 2, Len(t) - 1)

FsNoSlot == [id |-> 0, time |-> <<>>, type |-> <<>>, task |-> <<>>]

\* the pieces json.dump writes: the opening of the object, the date member,
\* one piece per slot, the closing of the list and of the object
json_dump(payload) ==
    << [kind |-> "{", text |-> <<>>, slot |-> FsNoSlot],
       [kind |-> "date", text |-> json_str(payload.date), slot |-> FsNoSlot] >>
    \o [i \in 1..Len(payload.schedule) |->
            [kind |-> "slot", text |-> <<>>,
             slot |-> [id   |-> payload.schedule[i].id,
                       time |-> json_str(payload.schedule[i].time),
                       type |-> json_str(payload.schedule[i].type),
                       task |-> json_str(payload.schedule[i].task)]]]
    \o << [kind |-> "}", text |-> <<>>, slot |-> FsNoSlot] >>

\* json.load: ok = FALSE stands for JSONDecodeError (an empty file, a text
\* that stops before the closing brace)
json_load(text) ==
    IF /\ Len(text) >= 3
       /\ text[1].kind = "{"
       /\ text[2].kind = "date" /\ json_is_str(text[2].text)
       /\ text[Len(text)].kind = "}"
       /\ \A i \in 3..(Len(text) - 1) : text[i].kind = "slot"
    THEN [ok |-> TRUE,
          data |-> [exists |-> TRUE,
                    date |-> json_unstr(text[2].text),
                    schedule |-> [i \in 1..(Len(text) - 3) |->
                                     [id   |-> text[i + 2].slot.id,
                                      time |-> json_unstr(text[i + 2].slot.time),
                                      type |-> json_unstr(text[i + 2].slot.type),
                                      task |-> json_unstr(text[i + 2].slot.task)]]]]
    ELSE [ok |-> FALSE, data |-> NoFile]

FsInit ==
    /\ FsIdle
    /\ RtIdle
    /\ UpIdle
    /\ NzIdle
    /\ CoIdle
    /\ PtIdle

FsFrame ==
    /\ UNCHANGED rtVars
    /\ UNCHANGED upVars
    /\ UNCHANGED nzVars
    /\ UNCHANGED coVars
    /\ UNCHANGED ptVars

\* _save_schedule_to_file, line 60: open(path, "w") creates the file or
\* cuts it to length 0; the payload is still to be written
FsSaveOpen ==
    \E sch \in FsSchedules, day \in FsDays :
        /\ ~fs_writer.open
        /\ fs_saved' = [date |-> isoformat(day), schedule |-> sch]
        /\ fs_writer' = [open |-> TRUE, todo |-> json_dump(fs_saved')]
        /\ fs_disk' = [exists |-> TRUE, text |-> <<>>]
        /\ UNCHANGED fs_loaded
        /\ FsFrame

\* line 61: json.dump writes piece by piece into the file object, whose
\* buffer reaches the file whenever it is full
FsSaveFlush ==
    /\ fs_writer.open
    /\ Len(fs_writer.todo) > 1
    /\ fs_disk' = [fs_disk EXCEPT !.text = Append(fs_disk.text, Head(fs_writer.todo))]
    /\ fs_writer' = [fs_writer EXCEPT !.todo = Tail(fs_writer.todo)]
    /\ UNCHANGED <<fs_saved, fs_loaded>>
    /\ FsFrame

\* the end of the with block: the rest is written and the file closed
FsSaveClose ==
    /\ fs_writer.open
    /\ fs_disk' = [fs_disk EXCEPT !.text = fs_disk.text \o fs_writer.todo]
    /\ fs_writer' = [open |-> FALSE, todo |-> <<>>]
    /\ UNCHANGED <<fs_saved, fs_loaded>>
    /\ FsFrame

\* _load_schedule of the follow-along page (pages/2, lines 40-59) on what
\* the file holds at this moment
FsLoad ==
    /\ fs_loaded' =
           IF ~fs_disk.exists
           THEN [status |-> "no_file", date_str |-> <<>>, schedule |-> <<>>]
           ELSE LET j == json_load(fs_disk.text)
                IN  IF ~j.ok
                    THEN [status |-> "decode_error", date_str |-> <<>>, schedule |-> <<>>]
                    ELSE [status   |-> "ok",
                          date_str |-> _load_schedule(j.data).date_str,
                          schedule |-> _load_schedule(j.data).schedule]
    /\ UNCHANGED <<fs_disk, fs_writer, fs_saved>>
    /\ FsFrame

FsNext == FsSaveOpen \/ FsSaveFlush \/ FsSaveClose \/ FsLoad

SpecFile == FsInit /\ [][FsNext]_vars

\* how often a slot occurs in a list
FsCount(sch, slot) == Cardinality({ i \in 1..Len(sch) : sch[i] = slot })

\* the same slots, ids and fields, whatever the order
FsSameSlots(a, b) ==
    /\ Len(a) = Len(b)
    /\ \A i \in 1..Len(a) : FsCount(a, a[i]) = FsCount(b, a[i])

\* sorted by the text of the time field, as sorted(schedule, key=_key) does
FsSortedByText(sch) ==
    \A i \in 1..(Len(sch) - 1) : StrLe(str(sch[i].time), str(sch[i + 1].time))

\* sorted by the time of day the time field stands for
FsSortedByTime(sch) ==
    \A i \in 1..(Len(sch) - 1) :
        parse_hhmm_to_time(sch[i].time) <= parse_hhmm_to_time(sch[i + 1].time)

\* a load of a file that no save is writing
FsQuietLoad ==
    /\ fs_loaded' # fs_loaded
    /\ ~fs_writer.open
    /\ fs_disk.exists

C17_WholeFileReplace ==
    /\ fs_loaded.status # "decode_error"
    /\ (fs_disk.exists /\ ~fs_writer.open) => fs_disk.text = json_dump(fs_saved)

====
